---- MODULE Spec2Model ----
(***************************************************************************)
(* Model of the openclaw exporter's workspace collector: the background    *)
(* scan loop (startBackgroundRefresh / refreshSnapshot), its six sub-scans,*)
(* the snapshot store behind the RWMutex, and concurrent Collect calls;    *)
(* and of the session collector's fold of a session log                    *)
(* (collectSessionFileMetrics).                                            *)
(***************************************************************************)
EXTENDS Integers, Sequences, FiniteSets, Bags, TLC

(* ------------------------------ bounds -------------------------------- *)

\* Number of Collect calls that may hold the read lock at once (HTTP
\* scrapes in flight).
NumReaders == 2

\* Largest value of scanErrorsTotal explored: the environment injects a
\* fault (I/O error, timeout) only while a whole cycle of NumSubScans
\* errors still fits below this value.
MaxScanErrors == 6

\* Wall-clock durations of a cycle are drawn from 1..MaxDuration.
MaxDuration == 2

\* Session logs of up to MaxLogLen lines are explored.
MaxLogLen == 3

\* Agents directories of up to MaxAgents entries are explored.
MaxAgents == 2

\* Lines of a legacy markdown file of up to MaxLineLen characters are
\* explored.
MaxLineLen == 4

(* ------------------------- program constants -------------------------- *)

NumSubScans == 6

SubScans == <<"files", "exists", "context", "memory", "skills", "agents">>

SubScanSet == {SubScans[n] : n \in 1..NumSubScans}

\* collectFileMetrics: the fixed ordered list of canonical and legacy names.
files ==
  <<"AGENTS.md", "SOUL.md", "TOOLS.md", "IDENTITY.md",
    "USER.md", "HEARTBEAT.md", "BOOTSTRAP.md", "BOOT.md", "MEMORY.md",
    "soul.md", "skill.md", "agent.md">>

\* collectWorkspaceFileMetrics: the fixed list of canonical names.
workspaceFiles ==
  <<"AGENTS.md", "SOUL.md", "TOOLS.md", "IDENTITY.md",
    "USER.md", "HEARTBEAT.md", "BOOTSTRAP.md", "MEMORY.md">>

Range(s) == {s[n] : n \in 1..Len(s)}

\* A deduplication key that keeps the case of the name.
ToLower_Identity(name) == name

\* strings.ToLower on the names of the fixed list.
ToLower(name) ==
  CASE name = "AGENTS.md"    -> "agents.md"
    [] name = "SOUL.md"      -> "soul.md"
    [] name = "TOOLS.md"     -> "tools.md"
    [] name = "IDENTITY.md"  -> "identity.md"
    [] name = "USER.md"      -> "user.md"
    [] name = "HEARTBEAT.md" -> "heartbeat.md"
    [] name = "BOOTSTRAP.md" -> "bootstrap.md"
    [] name = "BOOT.md"      -> "boot.md"
    [] name = "MEMORY.md"    -> "memory.md"
    [] OTHER                 -> name

(* ------------------------- text of a markdown file -------------------- *)
\* A line is a sequence of one-character strings.

IsSpace(ch) == ch \in {" ", "\t"}

RECURSIVE TrimLeft(_)
TrimLeft(line) ==
  IF line # <<>> /\ IsSpace(Head(line)) THEN TrimLeft(Tail(line)) ELSE line

RECURSIVE TrimRight(_)
TrimRight(line) ==
  IF line # <<>> /\ IsSpace(line[Len(line)])
  THEN TrimRight(SubSeq(line, 1, Len(line) - 1))
  ELSE line

TrimSpace(line) == TrimRight(TrimLeft(line))

HasPrefixH2(line) == Len(line) >= 2 /\ line[1] = "#" /\ line[2] = "#"

\* The body of the scanner loop of countMarkdownSections for one line.
CountsAsSection(raw) ==
  LET line == TrimSpace(raw)
  IN  HasPrefixH2(line) /\ TrimLeft(SubSeq(line, 3, Len(line))) # <<>>

RECURSIVE CountLines(_)
CountLines(lines) ==
  IF lines = <<>> THEN 0
  ELSE (IF CountsAsSection(Head(lines)) THEN 1 ELSE 0) + CountLines(Tail(lines))

\* countMarkdownSections(path): a file is [status, lines]; status "missing"
\* makes os.Open fail with NotExist, "denied" makes it fail otherwise,
\* "toolong" makes scanner.Err() report a failure after the loop.
countMarkdownSections(file) ==
  IF file.status = "missing" THEN [count |-> 0, err |-> "notexist"]
  ELSE IF file.status = "denied" THEN [count |-> 0, err |-> "io"]
  ELSE IF file.status = "toolong" THEN [count |-> 0, err |-> "io"]
  ELSE [count |-> CountLines(file.lines), err |-> "nil"]

(* ------------------------------ workspace ----------------------------- *)
\* The directory tree and process environment the scanner runs against.
\*   stat      existing regular files of the workspace root, with their
\*             size and modification time (a name outside the domain makes
\*             os.Stat fail with NotExist)
\*   flaky     paths on which a filesystem call may fail with an error
\*             other than NotExist (permission, I/O)
\*   context   the files matched by the glob context*.md
\*   memory    the memory/ directory;  skillMd, agentMd  the legacy files
\*   agentsMd  the text of AGENTS.md
\*   skillsDir, userSkillsDir, sysSkillsDir  the three skills directories
\*   home, skillsDirEnv, goos, defaultSysExists  the process environment

H2Line == <<"#", "#", " ", "a">>
H3Line == <<"#", "#", "#", " ", "a">>
BareH2 == <<" ", "#", "#", " ">>
TextLine == <<"a", " ", "#", "#">>

\* make(map[string]float64): a map with no keys.
EmptyMap == [n \in {} |-> 0]

St(size, mtime) == [size |-> size, mtime |-> mtime]

NoDir == [status |-> "missing", entries |-> <<>>]

NoFile == [status |-> "missing", lines |-> <<>>]

TypicalWs ==
  [ stat |-> ("AGENTS.md" :> St(40, 7)) @@ ("SOUL.md" :> St(10, 5))
             @@ ("soul.md" :> St(11, 3)) @@ ("MEMORY.md" :> St(20, 9))
             @@ ("skill.md" :> St(8, 2)) @@ ("agent.md" :> St(9, 2)),
    flaky |-> {},
    context |-> << [size |-> 100, gone |-> FALSE], [size |-> 50, gone |-> TRUE],
                   [size |-> 25, gone |-> FALSE] >>,
    memory |-> [status |-> "ok",
                entries |-> << [isDir |-> FALSE, ext |-> ".md"],
                               [isDir |-> TRUE, ext |-> ".md"],
                               [isDir |-> FALSE, ext |-> ".txt"],
                               [isDir |-> FALSE, ext |-> ".md"] >>],
    skillMd |-> [status |-> "ok", lines |-> <<H2Line, TextLine, H2Line>>],
    agentMd |-> [status |-> "ok", lines |-> <<H2Line, BareH2, H3Line>>],
    agentsMd |-> [status |-> "ok", lines |-> <<H2Line, TextLine, H2Line>>],
    skillsDir |-> [status |-> "ok",
                   entries |-> << [isDir |-> TRUE, hasSkill |-> TRUE],
                                  [isDir |-> FALSE, hasSkill |-> FALSE] >>],
    userSkillsDir |-> [status |-> "ok",
                       entries |-> << [isDir |-> TRUE, hasSkill |-> FALSE],
                                      [isDir |-> TRUE, hasSkill |-> TRUE] >>],
    sysSkillsDir |-> [status |-> "ok",
                      entries |-> << [isDir |-> TRUE, hasSkill |-> TRUE] >>],
    home |-> "/home/u",
    skillsDirEnv |-> "/opt/skills",
    goos |-> "linux",
    defaultSysExists |-> FALSE ]

EmptyWs ==
  [ stat |-> EmptyMap,
    flaky |-> {},
    context |-> << >>,
    memory |-> NoDir,
    skillMd |-> NoFile,
    agentMd |-> NoFile,
    agentsMd |-> NoFile,
    skillsDir |-> NoDir,
    userSkillsDir |-> NoDir,
    sysSkillsDir |-> NoDir,
    home |-> "",
    skillsDirEnv |-> "",
    goos |-> "linux",
    defaultSysExists |-> FALSE ]

\* A workspace with unreliable paths: each call on a flaky path may fail.
FlakyWs ==
  [ stat |-> ("TOOLS.md" :> St(30, 4)) @@ ("SOUL.md" :> St(10, 5))
             @@ ("USER.md" :> St(5, 1)) @@ ("agent.md" :> St(9, 2)),
    flaky |-> {"USER.md", "memory", "skills"},
    context |-> << [size |-> 64, gone |-> FALSE] >>,
    memory |-> [status |-> "ok",
                entries |-> << [isDir |-> FALSE, ext |-> ".md"],
                               [isDir |-> FALSE, ext |-> ".md"] >>],
    skillMd |-> [status |-> "denied", lines |-> <<H2Line>>],
    agentMd |-> [status |-> "ok", lines |-> <<H2Line, H2Line>>],
    agentsMd |-> NoFile,
    skillsDir |-> [status |-> "ok",
                   entries |-> << [isDir |-> TRUE, hasSkill |-> TRUE] >>],
    userSkillsDir |-> NoDir,
    sysSkillsDir |-> [status |-> "ok",
                      entries |-> << [isDir |-> TRUE, hasSkill |-> TRUE] >>],
    home |-> "/home/u",
    skillsDirEnv |-> "",
    goos |-> "darwin",
    defaultSysExists |-> TRUE ]

Workspaces == {TypicalWs, EmptyWs, FlakyWs}

\* resolveSystemSkillsDir: "" when no system skills directory is probed.
resolveSystemSkillsDir(w) ==
  IF w.skillsDirEnv # "" THEN w.skillsDirEnv
  ELSE IF w.goos = "darwin" /\ w.defaultSysExists
       THEN "/opt/homebrew/lib/node_modules/openclaw/skills"
       ELSE ""

(* ----------------------------- session log ---------------------------- *)
\* A line of a session .jsonl file, as bufio.Scanner and json.Unmarshal see
\* it:
\*   long      the line exceeds the scanner's buffer limit
\*             (scanner.Buffer(buf, 1024*1024)): Scan returns false
\*   text      "empty" (len(line) = 0), "garbage" (not JSON: Unmarshal fails
\*             and fills nothing) or "object"
\*   mistyped  the object holds a value of another JSON type than the struct
\*             field: Unmarshal fills the other fields and returns an error
\*   event     the sessionEvent the fields of the object decode to
\* Pointer fields (Message, Usage, Cost) carry a nil flag.

NoCost == [nil |-> TRUE, total |-> 0]

Cost(t) == [nil |-> FALSE, total |-> t]

NoUsage ==
  [nil |-> TRUE, input |-> 0, output |-> 0, cacheRead |-> 0, cost |-> NoCost]

Usage(in, out, cache, cost) ==
  [nil |-> FALSE, input |-> in, output |-> out, cacheRead |-> cache,
   cost |-> cost]

NoMessage == [nil |-> TRUE, model |-> "", provider |-> "", usage |-> NoUsage]

Message(model, provider, usage) ==
  [nil |-> FALSE, model |-> model, provider |-> provider, usage |-> usage]

\* var event sessionEvent: the zero value, fresh for every line.
ZeroEvent ==
  [type |-> "", modelId |-> "", provider |-> "", thinkingLevel |-> "",
   message |-> NoMessage]

MessageEvent(m) == [ZeroEvent EXCEPT !.type = "message", !.message = m]

ModelChange(model, provider) ==
  [ZeroEvent EXCEPT !.type = "model_change", !.modelId = model,
                    !.provider = provider]

ThinkingChange(level) ==
  [ZeroEvent EXCEPT !.type = "thinking_level_change",
                    !.thinkingLevel = level]

EmptyLine ==
  [long |-> FALSE, text |-> "empty", mistyped |-> FALSE, event |-> ZeroEvent]

Garbage ==
  [long |-> FALSE, text |-> "garbage", mistyped |-> FALSE,
   event |-> ZeroEvent]

Object(ev) ==
  [long |-> FALSE, text |-> "object", mistyped |-> FALSE, event |-> ev]

Mistyped(ev) ==
  [long |-> FALSE, text |-> "object", mistyped |-> TRUE, event |-> ev]

TooLong(line) == [line EXCEPT !.long = TRUE]

\* The lines session logs are made of.
SessionLines ==
  { EmptyLine,
    Garbage,
    Mistyped(MessageEvent(Message("m9", "p9", Usage(7, 7, 7, Cost(7))))),
    TooLong(Garbage),
    TooLong(Object(MessageEvent(Message("", "", Usage(1, 1, 1, NoCost))))),
    Object(MessageEvent(Message("", "", Usage(10, 5, 0, NoCost)))),
    Object(MessageEvent(Message("m1", "p1", Usage(3, 1, 4, Cost(2))))),
    Object(MessageEvent(Message("m2", "", NoUsage))),
    Object(MessageEvent(Message("", "", Usage(-2, 0, 1, NoCost)))),
    Object(MessageEvent(NoMessage)),
    Object(ModelChange("m3", "p2")),
    Object(ThinkingChange("off")),
    Object(ThinkingChange("low")),
    Object(ThinkingChange("medium")),
    Object(ThinkingChange("high")),
    Object(ThinkingChange("max")),
    Object([ZeroEvent EXCEPT !.type = "session"]) }

SessionLogs ==
  UNION {[1..n -> SessionLines] : n \in 0..MaxLogLen}

\* A session file: os.Open succeeds ("ok") or fails ("missing").
SessionFiles ==
  {[status |-> "ok", lines |-> l] : l \in SessionLogs}
    \cup {[status |-> "missing", lines |-> << >>]}

NoSessionFile == [status |-> "missing", lines |-> << >>]

\* json.Unmarshal([]byte(line), &event) into a fresh event.
Decode(line) ==
  [ err   |-> line.text # "object" \/ line.mistyped,
    event |-> IF line.text = "object" THEN line.event ELSE ZeroEvent ]

\* A parser that folds whatever Unmarshal has filled in, error or not.
Skips_OnlyEmpty(line) == line.text = "empty"

\* Lines 259-266: the two continue statements before the switch.
Skips(line) == line.text = "empty" \/ Decode(line).err

\* A switch whose default resets the level.
ThinkingLevelOf_ResetsUnknown(level, prev) ==
  CASE level = "off"    -> 0
    [] level = "low"    -> 1
    [] level = "medium" -> 2
    [] level = "high"   -> 3
    [] OTHER            -> 0

\* Lines 299-308: the inner switch (it has no default).
ThinkingLevelOf(level, prev) ==
  CASE level = "off"    -> 0
    [] level = "low"    -> 1
    [] level = "medium" -> 2
    [] level = "high"   -> 3
    [] OTHER            -> prev

\* Lines 241-250: the accumulators at their zero values.
ZeroState ==
  [ messageCount |-> 0, totalInputTokens |-> 0, totalOutputTokens |-> 0,
    totalCacheRead |-> 0, totalCost |-> 0, currentProvider |-> "",
    currentModel |-> "", thinkingLevelNum |-> 0 ]

\* The first value named is kept for the rest of the log.
Named_KeepsFirst(new, old) == IF old # "" THEN old ELSE new

\* An assignment made whether or not the event names a value.
Named_Overwrites(new, old) == new

\* Lines 273-278, 291-296: if x != "" { current = x }.
Named(new, old) == IF new # "" THEN new ELSE old

\* Lines 269-288: case "message".
FoldMessage(st, m) ==
  LET counted == [st EXCEPT !.messageCount = @ + 1]
      named ==
        [counted EXCEPT
           !.currentModel = Named(m.model, @),
           !.currentProvider = Named(m.provider, @)]
      u == m.usage
  IN  IF m.nil THEN counted
      ELSE IF u.nil THEN named
      ELSE [named EXCEPT
              !.totalInputTokens = @ + u.input,
              !.totalOutputTokens = @ + u.output,
              !.totalCacheRead = @ + u.cacheRead,
              !.totalCost = IF u.cost.nil THEN @ ELSE @ + u.cost.total]

\* Lines 268-309: the switch on event.Type (the int counters are 64-bit and
\* the cost a float64 added in file order; neither limit is in reach here).
FoldEvent(st, ev) ==
  CASE ev.type = "message" -> FoldMessage(st, ev.message)
    [] ev.type = "model_change" ->
         [st EXCEPT
            !.currentModel = Named(ev.modelId, @),
            !.currentProvider = Named(ev.provider, @)]
    [] ev.type = "thinking_level_change" ->
         [st EXCEPT !.thinkingLevelNum = ThinkingLevelOf(ev.thinkingLevel, @)]
    [] OTHER -> st

\* A total that leaves the cache reads out.
TokensTotal_WithoutCache(st) == st.totalInputTokens + st.totalOutputTokens

\* Line 344: totalInputTokens+totalOutputTokens+totalCacheRead.
TokensTotal(st) ==
  st.totalInputTokens + st.totalOutputTokens + st.totalCacheRead

\* A model-info sample for every session, named model or not.
EmitsModelInfo_Always(st) == TRUE

\* Line 356: if currentModel != "".
EmitsModelInfo(st) == st.currentModel # ""

\* A sample: its descriptor, its value and its label values ("" for a
\* label the descriptor does not have).
Sample(desc, value) ==
  [desc |-> desc, value |-> value, agent |-> "", session_id |-> "",
   provider |-> "", model |-> ""]

\* Lines 312-371: the samples sent to ch, in order.
Samples(st) ==
  << Sample("sessionMessages", st.messageCount),
     Sample("sessionTokensInput", st.totalInputTokens),
     Sample("sessionTokensOutput", st.totalOutputTokens),
     Sample("sessionTokensCacheRead", st.totalCacheRead),
     Sample("sessionTokensTotal", TokensTotal(st)),
     Sample("sessionCostTotal", st.totalCost) >>
  \o (IF EmitsModelInfo(st)
      THEN << [Sample("modelInfo", 1) EXCEPT
                 !.provider = st.currentProvider,
                 !.model = st.currentModel] >>
      ELSE << >>)
  \o << Sample("thinkingLevel", st.thinkingLevelNum) >>

\* The label values agentName, sessionID every sample of lines 312-371
\* is sent with.
Labelled(samples, agent, sid) ==
  [n \in 1..Len(samples) |->
     [samples[n] EXCEPT !.agent = agent, !.session_id = sid]]

(* -------------------------- session registries ------------------------ *)
\* The tree under openclawHome/agents that SessionCollector.Collect walks.
\* A key of sessions.json is a sequence of characters.

HasPrefix(str, prefix) ==
  Len(str) >= Len(prefix) /\ SubSeq(str, 1, Len(prefix)) = prefix

AgentPrefix == <<"a", "g", "e", "n", "t", ":">>

\* The session logs of the tree, by path; any other path cannot be opened.
LogFiles ==
  ("ok.jsonl" :>
     [status |-> "ok",
      lines |-> << Object(MessageEvent(Message("m1", "p1",
                                               Usage(3, 1, 4, Cost(2))))),
                   Object(MessageEvent(Message("", "",
                                               Usage(10, 5, 0, NoCost)))) >>])
  @@ ("long.jsonl" :>
     [status |-> "ok",
      lines |-> << Object(MessageEvent(Message("", "",
                                               Usage(10, 5, 0, NoCost)))),
                   TooLong(Object(MessageEvent(Message("", "",
                                               Usage(1, 1, 1, NoCost))))),
                   Object(ModelChange("m3", "p2")) >>])

SessionFileAt(path) ==
  IF path \in DOMAIN LogFiles THEN LogFiles[path] ELSE NoSessionFile

\* A value of the sessionsJSON map.
Session(id, updatedAt, file) ==
  [sessionId |-> id, updatedAt |-> updatedAt, sessionFile |-> file]

\* sessions.json: "missing" (os.Stat fails), "unreadable" (os.ReadFile
\* fails), "malformed" (json.Unmarshal fails) or "ok" with the decoded map.
Registry(status, sessions) == [status |-> status, sessions |-> sessions]

NoSessions == [key \in {} |-> Session("", 0, "")]

LiveRegistry ==
  Registry("ok",
    (<<"a", "g", "e", "n", "t", ":", "m">> :> Session("s1", 5000, "ok.jsonl"))
    @@ (<<"a", "g", "e", "n", "t", ":", "s">>
          :> Session("s2", 1999, "long.jsonl"))
    @@ (<<"m">> :> Session("s3", 7000, "ok.jsonl")))

OddRegistry ==
  Registry("ok",
    (<<"a", "g", "e", "n", "t", ":", "m">> :> Session("", 5000, "ok.jsonl"))
    @@ (<<"a", "g", "e", "n", "t", ":", "s">> :> Session("s1", -1500, ""))
    @@ (<<"a", "g", "e", "n", "t", ":", "x">>
          :> Session("s1", 0, "gone.jsonl"))
    @@ (<<"A", "g", "e", "n", "t", ":", "m">>
          :> Session("s4", 3000, "ok.jsonl")))

Registries ==
  { Registry("missing", NoSessions), Registry("unreadable", NoSessions),
    Registry("malformed", NoSessions), Registry("ok", NoSessions),
    LiveRegistry, OddRegistry }

AgentNames == <<"a1", "a2", "a3", "a4">>

\* An entry of the agents directory: a subdirectory with its registry, or
\* a plain file.
AgentEntries(name) ==
  {[name |-> name, isDir |-> TRUE, registry |-> reg] : reg \in Registries}
    \cup {[name |-> name, isDir |-> FALSE,
           registry |-> Registry("missing", NoSessions)]}

\* os.ReadDir returns the entries sorted by name.
AgentsDirs ==
  UNION { {[status |-> "ok", entries |-> es] :
             es \in {f \in [1..n -> UNION {AgentEntries(AgentNames[m]) :
                                             m \in 1..n}] :
                       \A m \in 1..n : f[m].name = AgentNames[m]}} :
          n \in 0..MaxAgents }
    \cup {[status |-> "denied", entries |-> << >>]}

NoAgentsDir == [status |-> "denied", entries |-> << >>]

\* int64 division of Go: the quotient truncated towards zero.
Quot(a, b) == IF a >= 0 THEN a \div b ELSE -((-a) \div b)

(* ------------------------------- state -------------------------------- *)

\* A constructor that announces a successful scrape.
EmptySnapshot_Succeeded ==
  [ fileStats |-> << >>,
    workspaceExists |-> [n \in {} |-> 0],
    contextLength |-> 0,
    skillsCount |-> 0,
    agentsCount |-> 0,
    memoryFiles |-> 0,
    scrapeSuccess |-> 1 ]

\* scrapeSnapshot{} with the map made: the zero value of every field.
EmptySnapshot ==
  [ fileStats |-> << >>,
    workspaceExists |-> EmptyMap,
    contextLength |-> 0,
    skillsCount |-> 0,
    agentsCount |-> 0,
    memoryFiles |-> 0,
    scrapeSuccess |-> 0 ]

NoCopy == [snapshot |-> EmptySnapshot, duration |-> 0, scanErrorsTotal |-> 0]

VARIABLES
  ws,               \* the workspace and environment (c.dir, os.Getenv)
  snapshot,         \* c.snapshot
  lastDuration,     \* c.lastDuration
  scanErrorsTotal,  \* c.scanErrorsTotal
  mu,               \* c.mu: [readers (a count), writer, writerWaiting]
  pc,               \* position of the background goroutine
  tickerStarted,    \* time.NewTicker has run
  tickPending,      \* a tick is buffered in ticker.C (capacity 1)
  ctxDone,          \* the cycle's context deadline has passed
  local,            \* refreshSnapshot's local snapshot
  errorCount,       \* refreshSnapshot's errorCount
  duration,         \* refreshSnapshot's duration
  i,                \* loop index of the running sub-scan
  k,                \* which skills directory collectSkillsMetrics is in
  acc,              \* count / totalLength / totalCount of the sub-scan
  reported,         \* collectFileMetrics' reported map (its true keys)
  rlocked,          \* Collect calls at line 222: read lock held, no copy yet
  rcopied,          \* Collect calls at line 225: the bag of their copies
  published,        \* history: the store as the last publish step left it
  active,           \* history: refreshSnapshot calls that have not returned
  calls,            \* history: invocations of each sub-scan this cycle
  failed,           \* history: sub-scans that returned an error this cycle
  origin,           \* history: what built c.snapshot
  aliased,          \* the cycle's local snapshot and c.snapshot hold the
                    \* same map and the same slice
  sessionFile,      \* the session log collectSessionFileMetrics is given
  spc,              \* position of collectSessionFileMetrics
  scanned,          \* lines scanner.Scan has delivered
  sessionState,     \* its accumulators (lines 241-250)
  exported,         \* the samples sent to ch in this export call
  agentName,        \* parameter agentName of the running call
  sessionID,        \* parameter sessionID of collectSessionFileMetrics
  scanErr,          \* what scanner.Err() would return (never asked)
  agentsDir,        \* the directory openclawHome/agents
  args,             \* the command line and environment of the process
  mpc,              \* position of main
  openclawDir,      \* *openclawDir after flag.Parse
  openclawHome,     \* *openclawHome after flag.Parse
  openclawHomePath, \* main's local openclawHomePath
  registered,       \* the collectors registered, with the path each got
  wpc,              \* position of SessionCollector.Collect
  agentIdx,         \* index of the range over agentEntries
  pending,          \* keys the range over sessions has yet to visit
  visited           \* history: the registry entries visited, in order

mainVars ==
  << args, mpc, openclawDir, openclawHome, openclawHomePath, registered >>

collectorVars ==
  << ws, snapshot, lastDuration, scanErrorsTotal, mu, pc, tickerStarted,
     tickPending, ctxDone, local, errorCount, duration, i, k, acc, reported,
     rlocked, rcopied, published, active, calls, failed, origin, aliased,
     mainVars >>

walkVars == << agentsDir, wpc, agentIdx, pending, visited >>

sessionVars ==
  << sessionFile, spc, scanned, sessionState, exported, agentName, sessionID,
     scanErr, walkVars, mainVars >>

vars == << collectorVars, sessionVars >>

storeVars == << snapshot, lastDuration, scanErrorsTotal, origin, published >>

scanVars ==
  << ctxDone, local, errorCount, duration, i, k, acc, reported,
     calls, failed >>

readerVars == << rlocked, rcopied >>

\* A loop that makes its ticker before it has scanned once.
StartPc_TickerFirst == "newTicker"

\* Line 139: startBackgroundRefresh begins with a call of refreshSnapshot.
StartPc == "first"

\* A string that main handles is a sequence of pieces; "" has none.
NoPath == << >>

\* A flag of the command line: given with a value, or not given.
Given(value) == [given |-> TRUE, value |-> value]

NotGiven == [given |-> FALSE, value |-> NoPath]

\* main has run up to http.ListenAndServe for a command line that names
\* the workspace and leaves the home to its default.
MainServing ==
  /\ args = [dirFlag |-> Given(<< "/w" >>), homeFlag |-> NotGiven,
             OPENCLAW_DIR |-> NoPath, OPENCLAW_HOME |-> NoPath,
             HOME |-> << "/u" >>]
  /\ mpc = "serving"
  /\ openclawDir = << "/w" >>
  /\ openclawHome = NoPath
  /\ openclawHomePath = << "/u", "/.openclaw" >>
  /\ registered = { [collector |-> "openclaw", path |-> << "/w" >>],
                    [collector |-> "session",
                     path |-> << "/u", "/.openclaw" >>] }

\* The struct literal of NewOpenclawCollector(dir) for a dir among W.
StructLiteral(W) ==
  /\ ws \in W
  /\ snapshot = EmptySnapshot
  /\ lastDuration = 0
  /\ scanErrorsTotal = 0
  /\ mu = [readers |-> 0, writer |-> FALSE, writerWaiting |-> FALSE]
  /\ tickerStarted = FALSE
  /\ tickPending = FALSE
  /\ ctxDone = FALSE
  /\ local = EmptySnapshot
  /\ errorCount = 0
  /\ duration = 0
  /\ i = 0
  /\ k = 0
  /\ acc = 0
  /\ reported = {}
  /\ rlocked = 0
  /\ rcopied = EmptyBag
  /\ published = NoCopy
  /\ active = 0
  /\ calls = [s \in SubScanSet |-> 0]
  /\ failed = {}
  /\ origin = [byCycle |-> FALSE, failed |-> {}, errorCount |-> 0]
  /\ aliased = FALSE

\* NewOpenclawCollector(dir) for a dir among W has returned to a main that
\* went on to serve: the struct literal, then go startBackgroundRefresh.
InitIn(W) ==
  /\ StructLiteral(W)
  /\ pc = StartPc
  /\ MainServing

\* A call of collectSessionFileMetrics on a file among F, about to start.
SessionInitIn(F) ==
  /\ sessionFile \in F
  /\ spc = "open"
  /\ scanned = 0
  /\ sessionState = ZeroState
  /\ exported = << >>
  /\ agentName = "main"
  /\ sessionID = "s1"
  /\ scanErr = "nil"
  /\ agentsDir = NoAgentsDir
  /\ wpc = "direct"
  /\ agentIdx = 0
  /\ pending = {}
  /\ visited = << >>

\* SessionCollector.Collect about to start over an agents directory among D
\* (no call of collectSessionFileMetrics is running).
WalkInitIn(D) ==
  /\ agentsDir \in D
  /\ wpc = "start"
  /\ agentIdx = 0
  /\ pending = {}
  /\ visited = << >>
  /\ exported = << >>
  /\ agentName = ""
  /\ sessionID = ""
  /\ sessionFile = NoSessionFile
  /\ spc = "done"
  /\ scanned = 0
  /\ sessionState = ZeroState
  /\ scanErr = "nil"

Init == InitIn(Workspaces) /\ SessionInitIn({NoSessionFile})

(* --------------------------- the environment -------------------------- *)

\* A fault is injected only while the error counter stays within its bound.
CanFault == scanErrorsTotal + NumSubScans <= MaxScanErrors

MayFail(path) == path \in ws.flaky /\ CanFault

\* os.Stat on a name of the workspace root: "ok", "notexist" or "io".
StatOutcomes(name) ==
  (IF name \in DOMAIN ws.stat THEN {"ok"} ELSE {"notexist"})
    \cup (IF MayFail(name) THEN {"io"} ELSE {})

\* os.ReadDir on a directory [status, entries] known under a path.
ReadDirOutcomes(dir, path) ==
  {dir.status} \cup (IF MayFail(path) THEN {"io"} ELSE {})

(* ------------------------- refreshSnapshot ---------------------------- *)

SubScanPcs ==
  { "files", "exists", "ctxGlob", "ctxLoop", "memRead", "memLoop",
    "skills", "skDir", "skLoop", "agents", "agRead" }

PublishPcs == {"lock", "lockWait", "locked", "setDur", "setErr", "unlock"}

RefreshPcs == {"begin", "finish", "observe"} \cup SubScanPcs \cup PublishPcs

EntryPc(sub) ==
  CASE sub = "files"   -> "files"
    [] sub = "exists"  -> "exists"
    [] sub = "context" -> "ctxGlob"
    [] sub = "memory"  -> "memRead"
    [] sub = "skills"  -> "skills"
    [] sub = "agents"  -> "agents"

IndexOf(sub) == CHOOSE n \in 1..NumSubScans : SubScans[n] = sub

\* A refreshSnapshot that gives up the cycle at the first failed sub-scan.
AfterReturn_Abort(sub, err) ==
  IF err # "nil" \/ IndexOf(sub) = NumSubScans THEN "done"
  ELSE SubScans[IndexOf(sub) + 1]

\* refreshSnapshot's sequence of calls: what runs after sub-scan sub has
\* returned err (the error is logged and counted, nothing is skipped).
AfterReturn(sub, err) ==
  IF IndexOf(sub) = NumSubScans THEN "done" ELSE SubScans[IndexOf(sub) + 1]

\* A reported map that outlives the call of collectFileMetrics.
NewReported_Kept == reported

\* Line 306: reported := make(map[string]bool), of each call.
NewReported == {}

\* A cycle that counts no more than one error.
Counted_AtMostOne(n) == 1

\* Lines 160, 165, 170, 175, 180, 185: errorCount++.
Counted(n) == n + 1

\* A sub-scan returns err having left snap in the local snapshot; the
\* caller counts the error and calls the next sub-scan.
Return(sub, err, snap) ==
  LET nxt == AfterReturn(sub, err) IN
  /\ local' = snap
  /\ errorCount' = IF err # "nil" THEN Counted(errorCount) ELSE errorCount
  /\ failed' = IF err # "nil" THEN failed \cup {sub} ELSE failed
  /\ pc' = IF nxt = "done" THEN "finish" ELSE EntryPc(nxt)
  /\ calls' = IF nxt = "done" THEN calls ELSE [calls EXCEPT ![nxt] = @ + 1]
  /\ i' = 1
  /\ k' = 1
  /\ acc' = 0
  /\ reported' = NewReported

\* A cycle that starts from the counts of the stored snapshot.
FreshSnapshot_Stale ==
  [ EmptySnapshot EXCEPT !.contextLength = snapshot.contextLength,
                         !.memoryFiles = snapshot.memoryFiles,
                         !.skillsCount = snapshot.skillsCount,
                         !.agentsCount = snapshot.agentsCount ]

\* Lines 152-154: the cycle's local snapshot, every field zero.
FreshSnapshot == EmptySnapshot

\* A local snapshot that is c.snapshot's map and slice.
SharesStore_Reused == TRUE

\* Lines 152-154: the struct literal and make(map[string]float64) give the
\* cycle a map and a (nil) slice that nothing else refers to.
SharesStore == FALSE

\* Lines 148-158: the context, the fresh local snapshot, errorCount := 0,
\* and the call of the first sub-scan.
Begin ==
  /\ pc = "begin"
  /\ ctxDone' = FALSE
  /\ local' = FreshSnapshot
  /\ errorCount' = 0
  /\ failed' = {}
  /\ calls' = [s \in SubScanSet |-> IF s = SubScans[1] THEN 1 ELSE 0]
  /\ pc' = EntryPc(SubScans[1])
  /\ i' = 1
  /\ k' = 1
  /\ acc' = 0
  /\ reported' = NewReported
  /\ aliased' = SharesStore
  /\ UNCHANGED << ws, storeVars, mu, tickerStarted, tickPending, duration,
                  readerVars, active, sessionVars >>

\* The deadline of context.WithTimeout passes while sub-scans are running.
Timeout ==
  /\ pc \in SubScanPcs
  /\ ~ctxDone
  /\ CanFault
  /\ ctxDone' = TRUE
  /\ UNCHANGED << ws, storeVars, mu, pc, tickerStarted, tickPending, local,
                  errorCount, duration, i, k, acc, reported, calls, failed,
                  readerVars, active, aliased, sessionVars >>

scanFrame == << ws, storeVars, mu, tickerStarted, tickPending, duration,
                ctxDone, readerVars, active, aliased, sessionVars >>

\* One iteration of collectFileMetrics' loop over files (or its exit).
collectFileMetrics ==
  /\ pc = "files"
  /\ IF i > Len(files) THEN Return("files", "nil", local)
     ELSE IF ctxDone THEN Return("files", "ctx", local)
     ELSE IF ToLower(files[i]) \in reported
          THEN /\ i' = i + 1
               /\ UNCHANGED << pc, local, errorCount, failed, calls, k, acc,
                               reported >>
     ELSE \E res \in StatOutcomes(files[i]) :
            CASE res = "io" -> Return("files", "io", local)
              [] res = "notexist" ->
                   /\ i' = i + 1
                   /\ UNCHANGED << pc, local, errorCount, failed, calls, k,
                                   acc, reported >>
              [] res = "ok" ->
                   /\ reported' = reported \cup {ToLower(files[i])}
                   /\ local' = [local EXCEPT !.fileStats =
                        Append(@, [name |-> files[i],
                                   size |-> ws.stat[files[i]].size,
                                   mtime |-> ws.stat[files[i]].mtime])]
                   /\ i' = i + 1
                   /\ UNCHANGED << pc, errorCount, failed, calls, k, acc >>
  /\ UNCHANGED scanFrame

\* An existence scan that, like the file facts, skips a missing file.
RecordExists_SkipMissing(map, file, res) ==
  IF res = "ok" THEN (file :> 1) @@ map ELSE map

\* An existence scan that flags every name it looks at.
RecordExists_Always(map, file, res) == (file :> 1) @@ map

\* Lines 357-364: snapshot.workspaceExists[file] = exists.
RecordExists(map, file, res) ==
  (file :> (IF res = "ok" THEN 1 ELSE 0)) @@ map

\* One iteration of collectWorkspaceFileMetrics' loop (or its exit).
collectWorkspaceFileMetrics ==
  /\ pc = "exists"
  /\ IF i > Len(workspaceFiles) THEN Return("exists", "nil", local)
     ELSE IF ctxDone THEN Return("exists", "ctx", local)
     ELSE \E res \in StatOutcomes(workspaceFiles[i]) :
            IF res = "io" THEN Return("exists", "io", local)
            ELSE /\ local' = [local EXCEPT !.workspaceExists =
                       RecordExists(@, workspaceFiles[i], res)]
                 /\ i' = i + 1
                 /\ UNCHANGED << pc, errorCount, failed, calls, k, acc,
                                 reported >>
  /\ UNCHANGED scanFrame

\* collectContextMetrics: filepath.Glob, with no poll of ctx before it.
\* Glob fails only on a malformed pattern; the workspace path is taken to
\* hold no pattern metacharacter, so it returns the matches.
collectContextGlob ==
  /\ pc = "ctxGlob"
  /\ pc' = "ctxLoop"
  /\ i' = 1
  /\ acc' = 0
  /\ UNCHANGED << local, errorCount, failed, calls, k, reported >>
  /\ UNCHANGED scanFrame

\* One iteration of collectContextMetrics' loop over the glob results: a
\* file that can no longer be stat'ed is skipped.
collectContextMetrics ==
  /\ pc = "ctxLoop"
  /\ IF i > Len(ws.context)
     THEN Return("context", "nil", [local EXCEPT !.contextLength = acc])
     ELSE IF ctxDone THEN Return("context", "ctx", local)
     ELSE /\ acc' = IF ws.context[i].gone THEN acc
                    ELSE acc + ws.context[i].size
          /\ i' = i + 1
          /\ UNCHANGED << pc, local, errorCount, failed, calls, k, reported >>
  /\ UNCHANGED scanFrame

\* A memory sub-scan that reports a missing directory as a failure.
MissingMemoryDir_Fails == "notexist"

\* Lines 380-383: what collectMemoryMetrics returns when os.ReadDir fails
\* with NotExist.
MissingMemoryDir == "nil"

\* collectMemoryMetrics up to os.ReadDir: the only poll of ctx.
collectMemoryReadDir ==
  /\ pc = "memRead"
  /\ IF ctxDone THEN Return("memory", "ctx", local)
     ELSE \E res \in ReadDirOutcomes(ws.memory, "memory") :
            CASE res = "missing" ->
                   Return("memory", MissingMemoryDir,
                          [local EXCEPT !.memoryFiles = 0])
              [] res = "io" -> Return("memory", "io", local)
              [] res = "ok" ->
                   /\ pc' = "memLoop"
                   /\ i' = 1
                   /\ acc' = 0
                   /\ UNCHANGED << local, errorCount, failed, calls, k,
                                   reported >>
  /\ UNCHANGED scanFrame

\* One iteration of collectMemoryMetrics' loop over the entries: no poll.
collectMemoryMetrics ==
  /\ pc = "memLoop"
  /\ IF i > Len(ws.memory.entries)
     THEN Return("memory", "nil", [local EXCEPT !.memoryFiles = acc])
     ELSE /\ acc' = IF ~ws.memory.entries[i].isDir
                       /\ ws.memory.entries[i].ext = ".md"
                    THEN acc + 1 ELSE acc
          /\ i' = i + 1
          /\ UNCHANGED << pc, local, errorCount, failed, calls, k, reported >>
  /\ UNCHANGED scanFrame

\* collectSkillsMetrics up to the legacy skill.md count: any error of
\* countMarkdownSections is dropped.
collectSkillsLegacy ==
  /\ pc = "skills"
  /\ IF ctxDone THEN Return("skills", "ctx", local)
     ELSE /\ acc' = IF countMarkdownSections(ws.skillMd).err = "nil"
                    THEN countMarkdownSections(ws.skillMd).count ELSE 0
          /\ pc' = "skDir"
          /\ k' = 1
          /\ UNCHANGED << local, errorCount, failed, calls, i, reported >>
  /\ UNCHANGED scanFrame

\* The k-th skills directory: workspace, user (~/.openclaw/skills), system.
SkillsDir(n) ==
  CASE n = 1 -> ws.skillsDir
    [] n = 2 -> ws.userSkillsDir
    [] n = 3 -> ws.sysSkillsDir

SkillsPath(n) ==
  CASE n = 1 -> "skills"
    [] n = 2 -> "userSkills"
    [] n = 3 -> "sysSkills"

\* Whether collectSkillsMetrics reads the k-th directory at all.
SkillsDirProbed(n) ==
  CASE n = 1 -> TRUE
    [] n = 2 -> ws.home # ""
    [] n = 3 -> resolveSystemSkillsDir(ws) # ""

\* os.ReadDir of the k-th skills directory, or the final assignment.
collectSkillsReadDir ==
  /\ pc = "skDir"
  /\ IF k > 3
     THEN Return("skills", "nil", [local EXCEPT !.skillsCount = acc])
     ELSE IF ~SkillsDirProbed(k)
          THEN /\ k' = k + 1
               /\ UNCHANGED << pc, local, errorCount, failed, calls, i, acc,
                               reported >>
     ELSE \E res \in ReadDirOutcomes(SkillsDir(k), SkillsPath(k)) :
            CASE res = "missing" ->
                   /\ k' = k + 1
                   /\ UNCHANGED << pc, local, errorCount, failed, calls, i,
                                   acc, reported >>
              [] res = "io" -> Return("skills", "io", local)
              [] res = "ok" ->
                   /\ pc' = "skLoop"
                   /\ i' = 1
                   /\ UNCHANGED << local, errorCount, failed, calls, k, acc,
                                   reported >>
  /\ UNCHANGED scanFrame

\* One iteration of a loop over the entries of a skills directory.
collectSkillsMetrics ==
  /\ pc = "skLoop"
  /\ IF i > Len(SkillsDir(k).entries)
     THEN /\ pc' = "skDir"
          /\ k' = k + 1
          /\ i' = 1
          /\ UNCHANGED << local, errorCount, failed, calls, acc, reported >>
     ELSE IF ctxDone THEN Return("skills", "ctx", local)
     ELSE /\ acc' = IF SkillsDir(k).entries[i].isDir
                       /\ SkillsDir(k).entries[i].hasSkill
                    THEN acc + 1 ELSE acc
          /\ i' = i + 1
          /\ UNCHANGED << pc, local, errorCount, failed, calls, k, reported >>
  /\ UNCHANGED scanFrame

\* collectAgentsMetrics' entry: the only poll of ctx.
collectAgentsEntry ==
  /\ pc = "agents"
  /\ IF ctxDone THEN Return("agents", "ctx", local)
     ELSE /\ pc' = "agRead"
          /\ UNCHANGED << local, errorCount, failed, calls, i, k, acc,
                          reported >>
  /\ UNCHANGED scanFrame

\* An agents sub-scan that reads AGENTS.md.
agentPath_AgentsMd(w) == w.agentsMd

\* Line 510: agentPath is agent.md of the workspace directory.
agentPath(w) == w.agentMd

\* collectAgentsMetrics: the section count of the legacy agent.md; any
\* error of countMarkdownSections is dropped.
collectAgentsMetrics ==
  /\ pc = "agRead"
  /\ Return("agents", "nil",
            [local EXCEPT !.agentsCount =
               IF countMarkdownSections(agentPath(ws)).err = "nil"
               THEN countMarkdownSections(agentPath(ws)).count ELSE 0])
  /\ UNCHANGED scanFrame

\* A success flag that tolerates one failed sub-scan.
ScrapeSuccessOf_Lenient(n) == IF n > 1 THEN 0 ELSE 1

\* Lines 188-191: snapshot.scrapeSuccess from the cycle's error count.
ScrapeSuccessOf(n) == IF n > 0 THEN 0 ELSE 1

\* A counter that a cycle without errors resets.
AddScanErrors_Reset(total, n) == IF n > 0 THEN total + n ELSE 0

\* Lines 197-199: the counter after a cycle with n errors (a uint64, whose
\* wrap at 2^64 lies far beyond MaxScanErrors).
AddScanErrors(total, n) == IF n > 0 THEN total + n ELSE total

\* Lines 188-193: scrapeSuccess is set and the elapsed time is measured.
Finish ==
  /\ pc = "finish"
  /\ local' = [local EXCEPT !.scrapeSuccess = ScrapeSuccessOf(errorCount)]
  /\ \E d \in 1..MaxDuration : duration' = d
  /\ pc' = "lock"
  /\ UNCHANGED << ws, storeVars, mu, tickerStarted, tickPending, ctxDone,
                  errorCount, i, k, acc, reported, calls, failed, readerVars,
                  active, aliased, sessionVars >>

\* A read lock that ignores the writer.
CanRLock_NoExclusion == TRUE

\* A read lock that ignores a writer that is still waiting.
CanRLock_NoPreference == ~mu.writer

\* sync.RWMutex: Lock first announces the writer, which keeps new readers
\* out, then waits for the readers that hold the lock to leave.
CanRLock == ~mu.writer /\ ~mu.writerWaiting

\* A write lock that does not wait for the readers to leave.
CanLock_IgnoresReaders == ~mu.writer

\* sync.RWMutex: Lock returns once no writer and no reader holds the lock.
CanLock == ~mu.writer /\ mu.readers = 0

publishFrame == << ws, tickerStarted, tickPending, scanVars, readerVars,
                   active, aliased, sessionVars >>

\* Line 194, c.mu.Lock(): the writer is announced.
LockAnnounce ==
  /\ pc = "lock"
  /\ mu' = [mu EXCEPT !.writerWaiting = TRUE]
  /\ pc' = "lockWait"
  /\ UNCHANGED << storeVars, publishFrame >>

\* Line 194, c.mu.Lock(): the lock is taken once no reader holds it.
LockAcquire ==
  /\ pc = "lockWait"
  /\ CanLock
  /\ mu' = [mu EXCEPT !.writerWaiting = FALSE, !.writer = TRUE]
  /\ pc' = "locked"
  /\ UNCHANGED << storeVars, publishFrame >>

\* Line 195: c.snapshot = snapshot, a struct copy that takes over the map
\* and the slice of the cycle's snapshot.
PublishSnapshot ==
  /\ pc = "locked"
  /\ snapshot' = local
  /\ origin' = [byCycle |-> TRUE, failed |-> failed, errorCount |-> errorCount]
  /\ aliased' = TRUE
  /\ pc' = "setDur"
  /\ UNCHANGED << lastDuration, scanErrorsTotal, published, mu, ws,
                  tickerStarted, tickPending, scanVars, readerVars, active,
                  sessionVars >>

\* Line 196: c.lastDuration = duration.Seconds().
PublishDuration ==
  /\ pc = "setDur"
  /\ lastDuration' = duration
  /\ pc' = "setErr"
  /\ UNCHANGED << snapshot, scanErrorsTotal, origin, published, mu,
                  publishFrame >>

\* Lines 197-199: c.scanErrorsTotal += uint64(errorCount) when positive.
PublishErrors ==
  /\ pc = "setErr"
  /\ scanErrorsTotal' = AddScanErrors(scanErrorsTotal, errorCount)
  /\ pc' = "unlock"
  /\ UNCHANGED << snapshot, lastDuration, origin, published, mu,
                  publishFrame >>

\* A publish step that returns without releasing the lock.
Released_StillHeld(m) == m

\* sync.RWMutex.Unlock: the writer leaves.
Released(m) == [m EXCEPT !.writer = FALSE]

\* Line 200: c.mu.Unlock() ends the publish step.
Unlock ==
  /\ pc = "unlock"
  /\ mu' = Released(mu)
  /\ published' = [snapshot |-> snapshot, duration |-> lastDuration,
                   scanErrorsTotal |-> scanErrorsTotal]
  /\ pc' = "observe"
  /\ UNCHANGED << snapshot, lastDuration, scanErrorsTotal, origin,
                  publishFrame >>

\* Line 202 and the return of refreshSnapshot into startBackgroundRefresh:
\* after the first scan the ticker is made, after a later one the loop
\* waits for the next tick.
Observe ==
  /\ pc = "observe"
  /\ pc' = IF tickerStarted THEN "wait" ELSE "newTicker"
  /\ active' = active - 1
  /\ UNCHANGED << ws, storeVars, mu, tickerStarted, tickPending, scanVars,
                  readerVars, aliased, sessionVars >>

(* ----------------------- startBackgroundRefresh ----------------------- *)

loopFrame ==
  << ws, storeVars, mu, scanVars, readerVars, aliased, sessionVars >>

\* Line 139: the scan that runs before any timer tick.
FirstScan ==
  /\ pc = "first"
  /\ pc' = "begin"
  /\ active' = active + 1
  /\ UNCHANGED << tickerStarted, tickPending, loopFrame >>

\* Line 141: time.NewTicker(c.scanInterval).
NewTicker ==
  /\ pc = "newTicker"
  /\ tickerStarted' = TRUE
  /\ pc' = "wait"
  /\ UNCHANGED << tickPending, active, loopFrame >>

\* The ticker fires: ticker.C buffers one tick; a tick that finds the
\* buffer full is dropped and leaves no trace.
Tick ==
  /\ tickerStarted
  /\ ~tickPending
  /\ tickPending' = TRUE
  /\ UNCHANGED << pc, tickerStarted, active, loopFrame >>

\* A loop that starts a scan for a tick whatever the previous scan does.
LoopReceives_Anytime == pc \in {"wait"} \cup RefreshPcs

\* Line 142: the goroutine receives from ticker.C only at the range
\* statement, that is when no refreshSnapshot call is running.
LoopReceives == pc = "wait"

\* Lines 142-143: a tick is received and the next scan is called.
TickScan ==
  /\ LoopReceives
  /\ tickPending
  /\ tickPending' = FALSE
  /\ pc' = "begin"
  /\ active' = active + 1
  /\ UNCHANGED << tickerStarted, loopFrame >>

(* ------------------------------ Collect ------------------------------- *)

collectFrame == << ws, storeVars, pc, tickerStarted, tickPending, scanVars,
                   active, aliased, sessionVars >>

\* Line 221: c.mu.RLock() of a new Collect call.
RLock ==
  /\ rlocked + BagCardinality(rcopied) < NumReaders
  /\ CanRLock
  /\ mu' = [mu EXCEPT !.readers = @ + 1]
  /\ rlocked' = rlocked + 1
  /\ UNCHANGED << rcopied, collectFrame >>

\* A Collect call that takes the counted errors with it (read and reset).
AfterRead_Drained(total) == 0

\* Line 224: scanErrorsTotal := c.scanErrorsTotal reads the field and
\* leaves it as it is.
AfterRead(total) == total

\* Lines 222-224: the three copies a call makes while it holds the read lock.
CopyOut ==
  /\ rlocked > 0
  /\ rlocked' = rlocked - 1
  /\ rcopied' = rcopied (+) SetToBag({[snapshot |-> snapshot,
                                        duration |-> lastDuration,
                                        scanErrorsTotal |-> scanErrorsTotal]})
  /\ scanErrorsTotal' = AfterRead(scanErrorsTotal)
  /\ UNCHANGED << mu, ws, snapshot, lastDuration, origin, published, pc,
                  tickerStarted, tickPending, scanVars, active, aliased,
                  sessionVars >>

\* Line 225, c.mu.RUnlock(), and lines 227-292: the call holding the copies
\* c sends them to the channel and returns (the sends touch only its locals).
RUnlock(c) ==
  /\ BagIn(c, rcopied)
  /\ mu' = [mu EXCEPT !.readers = @ - 1]
  /\ rcopied' = rcopied (-) SetToBag({c})
  /\ UNCHANGED << rlocked, collectFrame >>

(* --------------------------- specification ---------------------------- *)

ScanStep ==
  \/ FirstScan
  \/ NewTicker
  \/ TickScan
  \/ Begin
  \/ collectFileMetrics
  \/ collectWorkspaceFileMetrics
  \/ collectContextGlob
  \/ collectContextMetrics
  \/ collectMemoryReadDir
  \/ collectMemoryMetrics
  \/ collectSkillsLegacy
  \/ collectSkillsReadDir
  \/ collectSkillsMetrics
  \/ collectAgentsEntry
  \/ collectAgentsMetrics
  \/ Finish
  \/ LockAnnounce
  \/ LockAcquire
  \/ PublishSnapshot
  \/ PublishDuration
  \/ PublishErrors
  \/ Unlock
  \/ Observe

\* The steps of the Collect calls that have taken the read lock.
CollectStep ==
  \/ CopyOut
  \/ \E c \in BagToSet(rcopied) : RUnlock(c)

Next ==
  \/ ScanStep
  \/ Timeout
  \/ Tick
  \/ RLock
  \/ CollectStep

Spec == Init /\ [][Next]_vars

\* The goroutine is scheduled, filesystem calls return, the ticker keeps
\* firing, and a Collect call that holds the read lock runs on.
Fairness ==
  /\ WF_vars(ScanStep)
  /\ WF_vars(Tick)
  /\ WF_vars(CollectStep)

\* The liveness claims are checked over a small workspace in which every
\* loop has an entry to run over and a path can fail.
SmallWs ==
  [ EmptyWs EXCEPT
      !.stat = ("SOUL.md" :> St(10, 5)),
      !.flaky = {"memory"},
      !.context = << [size |-> 64, gone |-> FALSE] >>,
      !.memory = [status |-> "ok",
                  entries |-> << [isDir |-> FALSE, ext |-> ".md"] >>],
      !.skillsDir = [status |-> "ok",
                     entries |-> << [isDir |-> TRUE, hasSkill |-> TRUE] >>] ]

LiveWorkspaces == {SmallWs}

LiveInit == InitIn(LiveWorkspaces) /\ SessionInitIn({NoSessionFile})

LiveSpec == LiveInit /\ [][Next]_vars /\ Fairness

(* -------------------------------- main -------------------------------- *)

FlagValues == {NotGiven, Given(NoPath), Given(<< "/f" >>)}

\* Every command line and environment: each flag not given, given empty
\* or given with a value; each environment variable empty or set.
Args ==
  [dirFlag : FlagValues, homeFlag : FlagValues,
   OPENCLAW_DIR : {NoPath, << "/e" >>},
   OPENCLAW_HOME : {NoPath, << "/e" >>},
   HOME : {NoPath, << "/u" >>}]

\* A flag that yields to a set environment variable.
FlagValue_EnvFirst(f, default) == IF default # NoPath THEN default ELSE f.value

\* flag.String(name, default, usage) after flag.Parse: the value given on
\* the command line, else the default.
FlagValue(f, default) == IF f.given THEN f.value ELSE default

\* Lines 16-22: the flags, their defaults read from the environment, and
\* flag.Parse.
flagParse ==
  /\ mpc = "parse"
  /\ openclawDir' = FlagValue(args.dirFlag, args.OPENCLAW_DIR)
  /\ openclawHome' = FlagValue(args.homeFlag, args.OPENCLAW_HOME)
  /\ mpc' = "checkDir"
  /\ UNCHANGED << args, openclawHomePath, registered, ws, storeVars, mu, pc,
                  tickerStarted, tickPending, scanVars, readerVars, active, aliased,
                  sessionFile, spc, scanned, sessionState, exported,
                  agentName, sessionID, scanErr, walkVars >>

\* Lines 24-26: log.Fatal when *openclawDir is empty.
checkDir ==
  /\ mpc = "checkDir"
  /\ mpc' = IF openclawDir = NoPath THEN "fatal" ELSE "home"
  /\ UNCHANGED << args, openclawDir, openclawHome, openclawHomePath,
                  registered, ws, storeVars, mu, pc, tickerStarted,
                  tickPending, scanVars, readerVars, active, aliased, sessionFile, spc,
                  scanned, sessionState, exported, agentName, sessionID,
                  scanErr, walkVars >>

\* Lines 29-32: openclawHomePath, defaulted from HOME.
resolveHome ==
  /\ mpc = "home"
  /\ openclawHomePath' = IF openclawHome = NoPath
                         THEN args.HOME \o << "/.openclaw" >>
                         ELSE openclawHome
  /\ mpc' = "newOpenclaw"
  /\ UNCHANGED << args, openclawDir, openclawHome, registered, ws, storeVars,
                  mu, pc, tickerStarted, tickPending, scanVars, readerVars,
                  active, aliased, sessionFile, spc, scanned, sessionState, exported,
                  agentName, sessionID, scanErr, walkVars >>

\* Lines 34-38: NewOpenclawCollector(*openclawDir), which starts the
\* background goroutine, and its registration.
NewOpenclawCollector ==
  /\ mpc = "newOpenclaw"
  /\ pc' = StartPc
  /\ registered' =
       registered \cup {[collector |-> "openclaw", path |-> openclawDir]}
  /\ mpc' = "newSession"
  /\ UNCHANGED << args, openclawDir, openclawHome, openclawHomePath, ws,
                  storeVars, mu, tickerStarted, tickPending, scanVars,
                  readerVars, active, aliased, sessionFile, spc, scanned, sessionState,
                  exported, agentName, sessionID, scanErr, walkVars >>

\* Lines 41-42: NewSessionCollector(openclawHomePath), which defaults an
\* empty argument once more, and its registration.
NewSessionCollector ==
  /\ mpc = "newSession"
  /\ registered' =
       registered \cup
         {[collector |-> "session",
           path |-> IF openclawHomePath = NoPath
                    THEN args.HOME \o << "/.openclaw" >>
                    ELSE openclawHomePath]}
  /\ mpc' = "listen"
  /\ UNCHANGED << args, openclawDir, openclawHome, openclawHomePath, ws,
                  storeVars, mu, pc, tickerStarted, tickPending, scanVars,
                  readerVars, active, aliased, sessionFile, spc, scanned, sessionState,
                  exported, agentName, sessionID, scanErr, walkVars >>

\* Lines 44-59: the handlers and http.ListenAndServe, which serves or
\* returns an error that is fatal.
ListenAndServe ==
  /\ mpc = "listen"
  /\ mpc' \in {"serving", "fatal"}
  /\ UNCHANGED << args, openclawDir, openclawHome, openclawHomePath,
                  registered, ws, storeVars, mu, pc, tickerStarted,
                  tickPending, scanVars, readerVars, active, aliased, sessionFile, spc,
                  scanned, sessionState, exported, agentName, sessionID,
                  scanErr, walkVars >>

\* The process is started: no collector exists, and the goroutine of the
\* workspace collector has not been made.
MainInit ==
  /\ args \in Args
  /\ mpc = "parse"
  /\ openclawDir = NoPath
  /\ openclawHome = NoPath
  /\ openclawHomePath = NoPath
  /\ registered = {}
  /\ StructLiteral({EmptyWs})
  /\ pc = "unborn"
  /\ WalkInitIn({NoAgentsDir})

\* main, and the first step of the goroutine it starts.
MainNext ==
  \/ flagParse
  \/ checkDir
  \/ resolveHome
  \/ NewOpenclawCollector
  \/ NewSessionCollector
  \/ ListenAndServe
  \/ FirstScan

MainSpec == MainInit /\ [][MainNext]_vars

(* ------------------------ the agents sub-scan ------------------------- *)
\* One refresh cycle without timeout over workspaces that differ in the
\* legacy agent.md and in AGENTS.md, while AGENTS.md is being rewritten.

Alphabet == {"#", " ", "a"}

MarkdownLines == UNION {[1..n -> Alphabet] : n \in 0..MaxLineLen}

AgentMdFiles ==
  {NoFile, [status |-> "denied", lines |-> << H2Line >>],
   [status |-> "ok", lines |-> << H2Line, BareH2, H2Line >>]}
    \cup {[status |-> "ok", lines |-> << line >>] : line \in MarkdownLines}

AgentsMdFiles ==
  {NoFile, [status |-> "ok", lines |-> << H2Line, H2Line >>],
   [status |-> "ok", lines |-> << H2Line, TextLine >>]}

\* The entries of the workspace root for the two files.
WithMarkdown(stat, name, file) ==
  IF file.status = "missing"
  THEN [n \in DOMAIN stat \ {name} |-> stat[n]]
  ELSE (name :> St(Len(file.lines), 1)) @@ stat

AgentsWs(agentMd, agentsMd) ==
  [SmallWs EXCEPT
     !.flaky = {},
     !.stat = WithMarkdown(WithMarkdown(SmallWs.stat, "agent.md", agentMd),
                           "AGENTS.md", agentsMd),
     !.agentMd = agentMd,
     !.agentsMd = agentsMd]

AgentsWorkspaces ==
  {AgentsWs(f, g) : f \in AgentMdFiles, g \in AgentsMdFiles}

\* The environment creates, rewrites or deletes AGENTS.md.
WriteAgentsMd ==
  /\ \E g \in AgentsMdFiles \ {ws.agentsMd} :
       ws' = [ws EXCEPT !.agentsMd = g,
                        !.stat = WithMarkdown(ws.stat, "AGENTS.md", g)]
  /\ UNCHANGED << storeVars, mu, pc, tickerStarted, tickPending, scanVars,
                  readerVars, active, aliased, sessionVars >>

AgentsInit == InitIn(AgentsWorkspaces) /\ SessionInitIn({NoSessionFile})

AgentsNext ==
  \/ FirstScan
  \/ Begin
  \/ collectFileMetrics
  \/ collectWorkspaceFileMetrics
  \/ collectContextGlob
  \/ collectContextMetrics
  \/ collectMemoryReadDir
  \/ collectMemoryMetrics
  \/ collectSkillsLegacy
  \/ collectSkillsReadDir
  \/ collectSkillsMetrics
  \/ collectAgentsEntry
  \/ collectAgentsMetrics
  \/ Finish
  \/ LockAnnounce
  \/ LockAcquire
  \/ PublishSnapshot
  \/ PublishDuration
  \/ PublishErrors
  \/ Unlock
  \/ WriteAgentsMd

AgentsSpec == AgentsInit /\ [][AgentsNext]_vars

(* ------------------- collectSessionFileMetrics ------------------------ *)

\* Lines 234-255: os.Open; a file that cannot be opened is logged and the
\* call returns having sent nothing.
OpenSession ==
  /\ spc = "open"
  /\ spc' = IF sessionFile.status = "ok" THEN "scan" ELSE "done"
  /\ scanned' = 0
  /\ sessionState' = ZeroState
  /\ scanErr' = "nil"
  /\ UNCHANGED << sessionFile, exported, agentName, sessionID, walkVars,
                  collectorVars >>

\* A scanner that also gives up at a line that does not decode.
ScanEnds_OnGarbage(lines, n) ==
  n = Len(lines) \/ lines[n + 1].long \/ Decode(lines[n + 1]).err

\* Lines 255-257: scanner.Scan() returns false after the last line and at
\* a line longer than the 1 MiB buffer limit.
ScanEnds(lines, n) == n = Len(lines) \/ lines[n + 1].long

\* Lines 257-310: one scanner.Scan() and the loop body. Scan returns false
\* at the end of the file and at a line over the buffer limit (the error is
\* never looked at), and the loop ends.
ScanLine ==
  /\ spc = "scan"
  /\ IF ScanEnds(sessionFile.lines, scanned)
     THEN /\ spc' = "report"
          /\ scanErr' = IF scanned = Len(sessionFile.lines) THEN "nil"
                        ELSE "toolong"
          /\ UNCHANGED << scanned, sessionState >>
     ELSE LET line == sessionFile.lines[scanned + 1] IN
          /\ scanned' = scanned + 1
          /\ sessionState' = IF Skips(line) THEN sessionState
                             ELSE FoldEvent(sessionState, Decode(line).event)
          /\ UNCHANGED << spc, scanErr >>
  /\ UNCHANGED << sessionFile, exported, agentName, sessionID, walkVars,
                  collectorVars >>

\* Lines 312-371: the samples are sent.
Report ==
  /\ spc = "report"
  /\ exported' =
       exported \o Labelled(Samples(sessionState), agentName, sessionID)
  /\ spc' = "done"
  /\ UNCHANGED << sessionFile, scanned, sessionState, agentName, sessionID,
                  scanErr, walkVars, collectorVars >>

SessionNext ==
  \/ OpenSession
  \/ ScanLine
  \/ Report

\* One call of collectSessionFileMetrics on each session file, beside a
\* collector that has not started.
SessionInit == InitIn({EmptyWs}) /\ SessionInitIn(SessionFiles)

SessionSpec == SessionInit /\ [][SessionNext]_vars

(* ---------------------- SessionCollector.Collect ---------------------- *)

ScrapeSuccessSample(value, agent) ==
  [Sample("scrapeSuccess", value) EXCEPT !.agent = agent]

\* Lines 128-136: os.ReadDir(agentsDir); on an error one sample with value
\* 0 and the agent label "unknown" is sent and the call returns.
WalkStart ==
  /\ wpc = "start"
  /\ IF agentsDir.status # "ok"
     THEN /\ exported' = exported \o << ScrapeSuccessSample(0, "unknown") >>
          /\ wpc' = "end"
          /\ UNCHANGED agentIdx
     ELSE /\ wpc' = "agents"
          /\ agentIdx' = 1
          /\ UNCHANGED exported
  /\ UNCHANGED << sessionFile, spc, scanned, sessionState, agentName,
                  sessionID, scanErr, agentsDir, pending, visited,
                  collectorVars >>

\* Lines 138-150: one iteration of the range over agentEntries (or its
\* end): an entry that is no directory, or whose sessions.json cannot be
\* stat'ed, is passed over; for any other collectAgentSessions is called.
NextAgent ==
  /\ wpc = "agents"
  /\ IF agentIdx > Len(agentsDir.entries)
     THEN /\ wpc' = "end"
          /\ UNCHANGED << agentIdx, agentName >>
     ELSE LET a == agentsDir.entries[agentIdx] IN
          IF ~a.isDir \/ a.registry.status = "missing"
          THEN /\ agentIdx' = agentIdx + 1
               /\ UNCHANGED << wpc, agentName >>
          ELSE /\ wpc' = "registry"
               /\ agentName' = a.name
               /\ UNCHANGED agentIdx
  /\ UNCHANGED << sessionFile, spc, scanned, sessionState, exported,
                  sessionID, scanErr, agentsDir, pending, visited,
                  collectorVars >>

\* A walk that gives up at the first registry it cannot read.
AfterBadRegistry_Stops == "end"

\* Lines 186-189, 192-195: log and return to the range over agentEntries.
AfterBadRegistry == "agents"

\* Lines 185-195: os.ReadFile and json.Unmarshal of sessions.json.
ReadRegistry ==
  /\ wpc = "registry"
  /\ LET reg == agentsDir.entries[agentIdx].registry IN
     IF reg.status # "ok"
     THEN /\ wpc' = AfterBadRegistry
          /\ agentIdx' = agentIdx + 1
          /\ UNCHANGED pending
     ELSE /\ wpc' = "entries"
          /\ pending' = DOMAIN reg.sessions
          /\ UNCHANGED agentIdx
  /\ UNCHANGED << sessionFile, spc, scanned, sessionState, exported,
                  agentName, sessionID, scanErr, agentsDir, visited,
                  collectorVars >>

\* An entry is reported whatever its key.
IsLive_AnyKey(key, session) == session.sessionId # ""

\* Lines 199-206: the two continue statements of the range over sessions.
IsLive(key, session) ==
  HasPrefix(key, AgentPrefix) /\ session.sessionId # ""

\* No scrape-success sample for an agent.
SuccessSamples_None(agent) == << >>

\* Line 230: the sample sent after the range over sessions.
SuccessSamples(agent) == << ScrapeSuccessSample(1, agent) >>

\* Lines 208-222: session-active and session-updated of a live entry.
EntrySamples(agent, session) ==
  Labelled(<< Sample("sessionActive", 1),
              Sample("sessionUpdated", Quot(session.updatedAt, 1000)) >>,
           agent, session.sessionId)

\* Lines 197-230: one iteration of the range over sessions, in the order
\* the map yields its keys (any), up to the call of
\* collectSessionFileMetrics; or the end of the range, the scrape-success
\* sample and the return to the range over agentEntries.
NextEntry ==
  /\ wpc = "entries"
  /\ IF pending = {}
     THEN /\ exported' = exported \o SuccessSamples(agentName)
          /\ wpc' = "agents"
          /\ agentIdx' = agentIdx + 1
          /\ UNCHANGED << pending, visited, sessionFile, spc, sessionID >>
     ELSE \E key \in pending :
            LET session == agentsDir.entries[agentIdx].registry.sessions[key]
                live == IsLive(key, session)
                calls_ == live /\ session.sessionFile # ""
            IN  /\ pending' = pending \ {key}
                /\ exported' = IF live
                               THEN exported \o EntrySamples(agentName, session)
                               ELSE exported
                /\ visited' = Append(visited,
                                [agent |-> agentName, key |-> key,
                                 from |-> Len(exported),
                                 opened |-> calls_])
                /\ IF calls_
                   THEN /\ sessionFile' = SessionFileAt(session.sessionFile)
                        /\ sessionID' = session.sessionId
                        /\ spc' = "open"
                        /\ wpc' = "inSession"
                   ELSE UNCHANGED << sessionFile, sessionID, spc, wpc >>
                /\ UNCHANGED agentIdx
  /\ UNCHANGED << scanned, sessionState, agentName, scanErr, agentsDir,
                  collectorVars >>

\* A walk that ends at a session file whose scan ended with an error.
AfterSession_StopsOnError(err) == IF err = "nil" THEN "entries" ELSE "end"

\* Lines 225-227: collectSessionFileMetrics returns nothing; the range
\* over sessions goes on whatever happened to the file.
AfterSession(err) == "entries"

\* Line 226-227: collectSessionFileMetrics has returned.
ReturnFromSession ==
  /\ wpc = "inSession"
  /\ spc = "done"
  /\ wpc' = AfterSession(scanErr)
  /\ UNCHANGED << sessionFile, spc, scanned, sessionState, exported,
                  agentName, sessionID, scanErr, agentsDir, agentIdx, pending,
                  visited, collectorVars >>

WalkNext ==
  \/ WalkStart
  \/ NextAgent
  \/ ReadRegistry
  \/ NextEntry
  \/ OpenSession
  \/ ScanLine
  \/ Report
  \/ ReturnFromSession

\* One export call of the session collector over each agents directory,
\* beside a workspace collector that has not started.
WalkInit == InitIn({EmptyWs}) /\ WalkInitIn(AgentsDirs)

WalkSpec == WalkInit /\ [][WalkNext]_vars

(* ------------------------------- claims ------------------------------- *)

PublishedByCycle == origin.byCycle

\* C1 (as stated): every snapshot the store holds has scrapeSuccess = 0
\* exactly when a sub-scan of the cycle that built it returned an error.
C1_Original ==
  (snapshot.scrapeSuccess = 0) <=> (origin.failed # {})

\* C1 (amended): every snapshot published by a scan cycle has
\* scrapeSuccess = 0 exactly when a sub-scan of that cycle returned an
\* error; the constructor's snapshot has scrapeSuccess = 0 with no cycle run.
C1_Amended ==
  /\ PublishedByCycle =>
       ((snapshot.scrapeSuccess = 0) <=> (origin.failed # {}))
  /\ ~PublishedByCycle => (snapshot.scrapeSuccess = 0 /\ origin.failed = {})

C1_Witness ==
  /\ PublishedByCycle
  /\ snapshot.scrapeSuccess = 0
  /\ origin.failed = {"memory"}
  /\ pc = "observe"

\* C2: the values a Collect call has copied are the store as one publish
\* step (or the constructor) left it, never parts of two cycles.
C2_OneCycle ==
  \A c \in BagToSet(rcopied) : c = published

\* A call holds copies of a cycle's publish while the next publish waits.
C2_Witness ==
  \E c \in BagToSet(rcopied) :
    /\ c.scanErrorsTotal > 0
    /\ c.snapshot.scrapeSuccess = 1
    /\ pc = "lockWait"

\* C3: the cumulative error counter never decreases, and a publish step
\* of a cycle in which no sub-scan failed leaves it as it was.
C3_Monotonic ==
  [][ /\ scanErrorsTotal' >= scanErrorsTotal
      /\ (pc = "setErr" /\ failed = {}) => scanErrorsTotal' = scanErrorsTotal
    ]_vars

C3_Witness ==
  /\ pc = "unlock"
  /\ failed = {}
  /\ scanErrorsTotal > 0

\* C4: no sub-scan is called twice in a cycle, and when the cycle reaches
\* its publish step each of the six has been called once, whichever failed.
C4_EachOnce ==
  /\ \A s \in SubScanSet : calls[s] <= 1
  /\ pc \in ({"finish", "observe"} \cup PublishPcs) =>
       \A s \in SubScanSet : calls[s] = 1

C4_Witness ==
  /\ pc = "locked"
  /\ {"files", "memory"} \subseteq failed
  /\ \A s \in SubScanSet : calls[s] = 1

\* The file facts collectFileMetrics has recorded after m names of its
\* list, in a workspace it could stat.
RECURSIVE FileFactsUpTo(_)
FileFactsUpTo(m) ==
  IF m = 0 THEN << >>
  ELSE LET prev == FileFactsUpTo(m - 1)
           name == files[m]
       IN  IF /\ name \in DOMAIN ws.stat
              /\ \A n \in 1..Len(prev) : ToLower(prev[n].name) # ToLower(name)
           THEN Append(prev, [name |-> name, size |-> ws.stat[name].size,
                              mtime |-> ws.stat[name].mtime])
           ELSE prev

\* The existence flags recorded after m names of workspaceFiles.
ExistsUpTo(m) ==
  [n \in {workspaceFiles[j] : j \in 1..m} |->
     IF n \in DOMAIN ws.stat THEN 1 ELSE 0]

CountOf(snap, sub) ==
  CASE sub = "context" -> snap.contextLength
    [] sub = "memory"  -> snap.memoryFiles
    [] sub = "skills"  -> snap.skillsCount
    [] sub = "agents"  -> snap.agentsCount

CountSubScans == {"context", "memory", "skills", "agents"}

\* Whether sub-scan sub left only zero/empty values in its own fields.
ContributesNothing(snap, sub) ==
  CASE sub = "files"  -> snap.fileStats = << >>
    [] sub = "exists" -> DOMAIN snap.workspaceExists = {}
    [] OTHER          -> CountOf(snap, sub) = 0

CanonicalNames == Range(workspaceFiles)

HasAllFlags(snap) ==
  /\ DOMAIN snap.workspaceExists = CanonicalNames
  /\ \A n \in CanonicalNames : snap.workspaceExists[n] \in {0, 1}

\* C6 (as stated): every snapshot a reader can observe holds a presence
\* flag (0 or 1) for each of the eight canonical names.
C6_Original ==
  /\ HasAllFlags(snapshot)
  /\ \A c \in BagToSet(rcopied) : HasAllFlags(c.snapshot)

\* C6 (amended): every snapshot published by a cycle whose existence
\* sub-scan returned no error holds a presence flag (0 or 1) for each of
\* the eight canonical names, whatever the other sub-scans did; the
\* constructor's snapshot holds no flag.
C6_Amended ==
  /\ (PublishedByCycle /\ "exists" \notin origin.failed) =>
       HasAllFlags(snapshot)
  /\ ~PublishedByCycle => DOMAIN snapshot.workspaceExists = {}

C6_Witness ==
  /\ PublishedByCycle
  /\ "exists" \notin origin.failed
  /\ origin.failed # {}
  /\ \E n \in CanonicalNames : snapshot.workspaceExists[n] = 0
  /\ \E n \in CanonicalNames : snapshot.workspaceExists[n] = 1
  /\ \E c \in BagToSet(rcopied) : c.snapshot = snapshot

\* C7: when the deadline has passed while the cycle was running its
\* sub-scans, the cycle counts at least one error, publishes
\* scrapeSuccess = 0 and has raised the cumulative error counter.
C7_TimeoutCounts ==
  (pc = "observe" /\ ctxDone) =>
    /\ errorCount >= 1
    /\ snapshot.scrapeSuccess = 0
    /\ scanErrorsTotal >= 1

LoopPcs == {"files", "exists", "ctxLoop", "memLoop", "skLoop"}

\* The sequence the loop at a loop position runs over.
LoopList ==
  CASE pc = "files"   -> files
    [] pc = "exists"  -> workspaceFiles
    [] pc = "ctxLoop" -> ws.context
    [] pc = "memLoop" -> ws.memory.entries
    [] pc = "skLoop"  -> SkillsDir(k).entries
    [] OTHER          -> << >>

RunningSubScan ==
  CASE pc = "files"   -> "files"
    [] pc = "exists"  -> "exists"
    [] pc \in {"ctxGlob", "ctxLoop"}         -> "context"
    [] pc \in {"memRead", "memLoop"}         -> "memory"
    [] pc \in {"skills", "skDir", "skLoop"}  -> "skills"
    [] pc \in {"agents", "agRead"}           -> "agents"
    [] OTHER -> "none"

\* C8: once the cancellation signal has fired, a sub-scan that still has a
\* loop iteration ahead does not run it: its next step returns the
\* cancellation error.
C8_PollsInLoops ==
  [][ ( /\ ctxDone
        /\ pc \in LoopPcs
        /\ i <= Len(LoopList)
        /\ << pc, i, k >>' # << pc, i, k >> )
      => RunningSubScan \in failed' ]_vars

\* C9: a refreshSnapshot call starts only when none is running (from the
\* first call or the tick receive, after the previous call has published
\* and returned), so at most one scan is in progress.
C9_NoOverlap ==
  [][ active' > active =>
        ( /\ active = 0
          /\ pc \in {"first", "wait"}
          /\ pc' = "begin"
          /\ ~mu.writer
          /\ (pc = "wait" => published.snapshot = snapshot) ) ]_vars

\* A tick has arrived while a scan is running its sub-scans.
C9_Witness ==
  /\ tickPending
  /\ pc \in SubScanPcs
  /\ active = 1
  /\ PublishedByCycle

\* C10: under fair scheduling every scan cycle that starts publishes a
\* snapshot, and after every publish (also of a failed or timed-out cycle)
\* another cycle starts.
C10_LoopRunsOn ==
  /\ (pc = "begin") ~> (pc = "observe")
  /\ (pc = "observe") ~> (pc = "begin")

\* A failed, timed-out cycle has published while a Collect call holds the
\* read lock.
C10_Witness ==
  /\ pc = "observe"
  /\ ctxDone
  /\ errorCount > 0
  /\ tickerStarted
  /\ rcopied # EmptyBag

Phase(p) ==
  IF p \in {"first", "newTicker", "wait"} THEN "Idle"
  ELSE IF p \in ({"begin", "finish"} \cup SubScanPcs) THEN "Scanning"
  ELSE "Publishing"

PublishSeq ==
  <<"lock", "lockWait", "locked", "setDur", "setErr", "unlock", "observe">>

PublishIndex(p) == CHOOSE n \in 1..Len(PublishSeq) : PublishSeq[n] = p

\* C11: the loop's phases follow Idle, Scanning, Publishing, Idle; the
\* first scan starts with no ticker made and no tick consumed, and no tick
\* is consumed before the first publish; every later scan starts by
\* consuming a tick; and every scan is followed by the steps of one publish,
\* each taken once, before the loop is idle again.
C11_ScanThenTicks ==
  [][ /\ Phase(pc') # Phase(pc) =>
           << Phase(pc), Phase(pc') >> \in
             { <<"Idle", "Scanning">>, <<"Scanning", "Publishing">>,
               <<"Publishing", "Idle">> }
      /\ (Phase(pc) = "Idle" /\ Phase(pc') = "Scanning") =>
           IF PublishedByCycle
           THEN pc = "wait" /\ tickPending /\ ~tickPending'
           ELSE pc = "first" /\ ~tickerStarted /\ ~tickPending
                /\ ~tickPending'
      /\ (tickPending /\ ~tickPending') =>
           (PublishedByCycle /\ Phase(pc') = "Scanning")
      /\ (Phase(pc) = "Scanning" /\ Phase(pc') = "Publishing") =>
           (pc = "finish" /\ pc' = PublishSeq[1])
      /\ (Phase(pc) = "Publishing" /\ Phase(pc') = "Publishing"
          /\ pc' # pc) => PublishIndex(pc') = PublishIndex(pc) + 1
      /\ (Phase(pc) = "Publishing" /\ Phase(pc') = "Idle") =>
           (pc = "observe" /\ snapshot = local
            /\ published.snapshot = snapshot)
    ]_vars

\* A second cycle has been started by a tick after the first one published.
C11_Witness ==
  /\ pc = "begin"
  /\ tickerStarted
  /\ ~tickPending
  /\ PublishedByCycle
  /\ active = 1

\* C12: while a sub-scan is executing the snapshot lock is neither held
\* nor asked for by the scan, so a Collect call that starts then takes the
\* read lock at once; the write lock is held only inside the publish step.
C12_NoLockWhileScanning ==
  /\ Phase(pc) = "Scanning" =>
       /\ ~mu.writer
       /\ ~mu.writerWaiting
       /\ (rlocked + BagCardinality(rcopied) < NumReaders => ENABLED RLock)
  /\ mu.writer => pc \in {"locked", "setDur", "setErr", "unlock"}

\* Every Collect call in flight took the read lock during a sub-scan.
C12_Witness ==
  /\ pc \in SubScanPcs
  /\ PublishedByCycle
  /\ rlocked = NumReaders
  /\ mu.readers = NumReaders

InCriticalSection == pc \in {"locked", "setDur", "setErr", "unlock"}

\* C13: the publish step is never inside its critical section while a
\* Collect call is inside its read section; a Collect call inside its read
\* section does not keep another from entering.
C13_WriterExcludesReaders ==
  /\ ~(InCriticalSection /\ rlocked + BagCardinality(rcopied) > 0)
  /\ InCriticalSection <=> mu.writer
  /\ mu.readers = rlocked + BagCardinality(rcopied)
  /\ ( /\ mu.readers >= 1
       /\ rlocked + BagCardinality(rcopied) < NumReaders
       /\ ~mu.writer /\ ~mu.writerWaiting ) => ENABLED RLock

\* Two Collect calls are inside their read sections while the publish step
\* waits for the lock.
C13_Witness ==
  /\ BagCardinality(rcopied) >= 2
  /\ mu.readers >= 2
  /\ pc = "lockWait"

\* C14: the stored snapshot, the last duration and the error counter
\* change only in a step of the publish step's critical section; a step of
\* a Collect call leaves all three unchanged.
C14_SoleWriter ==
  [][ /\ << snapshot, lastDuration, scanErrorsTotal >>'
           # << snapshot, lastDuration, scanErrorsTotal >> =>
             ( /\ pc \in {"locked", "setDur", "setErr"}
               /\ mu.writer
               /\ pc' # pc
               /\ UNCHANGED readerVars )
      /\ ~(UNCHANGED readerVars) =>
           UNCHANGED << snapshot, lastDuration, scanErrorsTotal >>
    ]_vars

\* A Collect call has copied a store that holds a duration and errors.
C14_Witness ==
  /\ rcopied # EmptyBag
  /\ rlocked > 0
  /\ scanErrorsTotal > 0
  /\ lastDuration > 0
  /\ Phase(pc) = "Idle"

SameIgnoringCase(a, b) == a = b \/ {a, b} = {"SOUL.md", "soul.md"}

\* collectFileMetrics alone, over every set of the names of its list.
FileSetWs(S) ==
  [EmptyWs EXCEPT
     !.stat = [n \in S |-> St(1, 1)],
     !.agentsMd = IF "AGENTS.md" \in S
                  THEN [status |-> "ok", lines |-> << TextLine >>]
                  ELSE NoFile,
     !.agentMd = IF "agent.md" \in S
                 THEN [status |-> "ok", lines |-> << TextLine >>]
                 ELSE NoFile,
     !.skillMd = IF "skill.md" \in S
                 THEN [status |-> "ok", lines |-> << TextLine >>]
                 ELSE NoFile]

FilesWorkspaces == {FileSetWs(S) : S \in SUBSET Range(files)}

FilesInit == InitIn(FilesWorkspaces) /\ SessionInitIn({NoSessionFile})

FilesNext ==
  \/ FirstScan
  \/ Begin
  \/ collectFileMetrics

FilesSpec == FilesInit /\ [][FilesNext]_vars

\* One cycle, from the first scan to its publication, over every set of
\* the names of collectFileMetrics' list, in a workspace with context
\* shards, a memory and a skills directory that stays as it is and whose
\* calls do not fail.
PresenceInit ==
  /\ InitIn({[w EXCEPT !.context = TypicalWs.context,
                       !.memory = TypicalWs.memory,
                       !.skillsDir = TypicalWs.skillsDir] :
               w \in FilesWorkspaces})
  /\ SessionInitIn({NoSessionFile})

PresenceNext ==
  \/ FirstScan
  \/ Begin
  \/ collectFileMetrics
  \/ collectWorkspaceFileMetrics
  \/ collectContextGlob
  \/ collectContextMetrics
  \/ collectMemoryReadDir
  \/ collectMemoryMetrics
  \/ collectSkillsLegacy
  \/ collectSkillsReadDir
  \/ collectSkillsMetrics
  \/ collectAgentsEntry
  \/ collectAgentsMetrics
  \/ Finish
  \/ LockAnnounce
  \/ LockAcquire
  \/ PublishSnapshot
  \/ PublishDuration
  \/ PublishErrors
  \/ Unlock

PresenceSpec == PresenceInit /\ [][PresenceNext]_vars

\* C15: for every set of present files the file facts never hold two
\* entries whose names are equal ignoring case, and once the sub-scan has
\* returned over a workspace with both SOUL.md and soul.md there is exactly
\* one entry for the two, named SOUL.md.
C15_NoCaseDuplicates ==
  LET fs == local.fileStats IN
  /\ \A m, n \in 1..Len(fs) :
       m # n => ~SameIgnoringCase(fs[m].name, fs[n].name)
  /\ (pc = "exists" /\ "files" \notin failed
      /\ {"SOUL.md", "soul.md"} \subseteq DOMAIN ws.stat) =>
       /\ Cardinality({n \in 1..Len(fs) :
                         fs[n].name \in {"SOUL.md", "soul.md"}}) = 1
       /\ \E n \in 1..Len(fs) : fs[n].name = "SOUL.md"
  /\ (pc = "exists" /\ "files" \notin failed) =>
       \A name \in DOMAIN ws.stat :
         \E n \in 1..Len(fs) : SameIgnoringCase(fs[n].name, name)

\* Every name of the list is present and the sub-scan has returned.
C15_Witness ==
  /\ pc = "exists"
  /\ DOMAIN ws.stat = Range(files)
  /\ Len(local.fileStats) = Len(files) - 1

\* C16: with no memory/ directory the memory sub-scan returns no error and
\* sets memoryFiles = 0; a cycle with no other failure and no timeout then
\* publishes scrapeSuccess = 1 and leaves the error counter as it was.
C16_MissingMemoryDir ==
  /\ [][ ( /\ pc = "memRead" /\ pc' # pc
           /\ ~ctxDone
           /\ ws.memory.status = "missing"
           /\ "memory" \notin ws.flaky ) =>
             ( /\ "memory" \notin failed'
               /\ errorCount' = errorCount
               /\ local'.memoryFiles = 0 ) ]_vars
  /\ []( ( /\ pc = "unlock"
           /\ ws.memory.status = "missing"
           /\ "memory" \notin ws.flaky
           /\ ~ctxDone
           /\ failed \subseteq {"memory"} ) =>
             ( /\ failed = {}
               /\ snapshot.scrapeSuccess = 1
               /\ snapshot.memoryFiles = 0
               /\ scanErrorsTotal = published.scanErrorsTotal ) )

\* A later cycle over a workspace without memory/ has published success.
C16_Witness ==
  /\ pc = "observe"
  /\ tickerStarted
  /\ ws.memory.status = "missing"
  /\ ~ctxDone
  /\ snapshot.scrapeSuccess = 1
  /\ snapshot.memoryFiles = 0

\* C17: in the skills and agents sub-scans a missing legacy file counts 0
\* without failing the sub-scan, and any other failure to open or read it
\* makes the sub-scan return an error.
C17_CallersFailOnReadError ==
  [][ /\ (pc = "skills" /\ pc' # pc /\ ~ctxDone) =>
           LET r == countMarkdownSections(ws.skillMd) IN
           /\ r.err = "notexist" => (acc' = 0 /\ "skills" \notin failed')
           /\ r.err = "io" => "skills" \in failed'
      /\ (pc = "agRead" /\ pc' # pc) =>
           LET r == countMarkdownSections(ws.agentMd) IN
           /\ r.err = "notexist" =>
                (local'.agentsCount = 0 /\ "agents" \notin failed')
           /\ r.err = "io" => "agents" \in failed'
    ]_vars

\* The loop of lines 257-310 as a whole: the accumulators after the lines.
RECURSIVE FoldLines(_, _)
FoldLines(st, lines) ==
  IF lines = << >> \/ Head(lines).long THEN st
  ELSE FoldLines(IF Skips(Head(lines)) THEN st
                 ELSE FoldEvent(st, Decode(Head(lines)).event),
                 Tail(lines))

\* An empty line or a line that fails to decode.
Dropped(line) == line.text = "empty" \/ Decode(line).err

KeepDecodable(line) == ~Dropped(line)

KeepDecodableOrLong(line) == ~Dropped(line) \/ line.long

SessionDone == spc = "done" /\ sessionFile.status = "ok"

\* C18 (as stated): the samples exported for a log equal those of the log
\* with its empty lines and its lines that fail to decode removed.
C18_Original ==
  SessionDone =>
    exported =
      Labelled(Samples(FoldLines(ZeroState,
                                 SelectSeq(sessionFile.lines, KeepDecodable))),
               agentName, sessionID)

\* C18 (amended): the samples exported for a log equal those of the log
\* with its empty lines and its lines that fail to decode removed, as far
\* as the removed lines are within the scanner's line-length limit; a line
\* over the limit ends the fold where it stands.
C18_Amended ==
  SessionDone =>
    exported =
      Labelled(Samples(FoldLines(ZeroState,
                                 SelectSeq(sessionFile.lines,
                                           KeepDecodableOrLong))),
               agentName, sessionID)

IsMessage(line) == ~Dropped(line) /\ Decode(line).event.type = "message"

\* A corrupt line (garbage, or a half-decoded message) stands between two
\* messages and both are counted.
C18_Witness ==
  /\ SessionDone
  /\ Len(sessionFile.lines) = 3
  /\ IsMessage(sessionFile.lines[1])
  /\ sessionFile.lines[2].mistyped
  /\ IsMessage(sessionFile.lines[3])
  /\ exported[1].value = 2

SampleValue(desc) ==
  LET n == CHOOSE n \in 1..Len(exported) : exported[n].desc = desc
  IN  exported[n].value

HasUsage(line) ==
  /\ IsMessage(line)
  /\ ~Decode(line).event.message.nil
  /\ ~Decode(line).event.message.usage.nil

RECURSIVE SumUsage(_, _)
SumUsage(lines, f) ==
  IF lines = << >> THEN 0
  ELSE (IF HasUsage(Head(lines))
        THEN Decode(Head(lines)).event.message.usage[f] ELSE 0)
       + SumUsage(Tail(lines), f)

\* The lines before the first one over the scanner's limit.
RECURSIVE BeforeLong(_)
BeforeLong(lines) ==
  IF lines = << >> \/ Head(lines).long THEN << >>
  ELSE << Head(lines) >> \o BeforeLong(Tail(lines))

TotalsMatch(lines) ==
  /\ SampleValue("sessionMessages") = Len(SelectSeq(lines, IsMessage))
  /\ SampleValue("sessionTokensInput") = SumUsage(lines, "input")
  /\ SampleValue("sessionTokensOutput") = SumUsage(lines, "output")
  /\ SampleValue("sessionTokensCacheRead") = SumUsage(lines, "cacheRead")
  /\ SampleValue("sessionTokensTotal") =
       SampleValue("sessionTokensInput") + SampleValue("sessionTokensOutput")
         + SampleValue("sessionTokensCacheRead")

\* C19 (as stated): for every log the exported message count is the number
\* of its message events, the token totals are the sums of the usage fields
\* of its messages that carry usage, and the total is their sum.
C19_Original == SessionDone => TotalsMatch(sessionFile.lines)

\* C19 (amended): the same, over the message events that stand before the
\* first line over the scanner's line-length limit (all of them when there
\* is no such line).
C19_Amended == SessionDone => TotalsMatch(BeforeLong(sessionFile.lines))

\* Three messages with usage {10, 5, 0} give 3, 30, 15, 45.
C19_Witness ==
  /\ SessionDone
  /\ Len(sessionFile.lines) = 3
  /\ \A n \in 1..3 :
       /\ HasUsage(sessionFile.lines[n])
       /\ sessionFile.lines[n].event.message.usage.input = 10
       /\ sessionFile.lines[n].event.message.usage.output = 5
       /\ sessionFile.lines[n].event.message.usage.cacheRead = 0
  /\ SampleValue("sessionMessages") = 3
  /\ SampleValue("sessionTokensInput") = 30
  /\ SampleValue("sessionTokensOutput") = 15
  /\ SampleValue("sessionTokensTotal") = 45

Ordinals == ("off" :> 0) @@ ("low" :> 1) @@ ("medium" :> 2) @@ ("high" :> 3)

IsLevelChange(line) ==
  /\ ~Dropped(line)
  /\ Decode(line).event.type = "thinking_level_change"
  /\ Decode(line).event.thinkingLevel \in DOMAIN Ordinals

\* The ordinal of the last recognised level of the lines, 0 without one.
RECURSIVE LastLevel(_)
LastLevel(lines) ==
  IF lines = << >> THEN 0
  ELSE IF IsLevelChange(lines[Len(lines)])
       THEN Ordinals[Decode(lines[Len(lines)]).event.thinkingLevel]
       ELSE LastLevel(SubSeq(lines, 1, Len(lines) - 1))

\* C20 (as stated): the thinking level is always in 0..3 and the exported
\* one is the ordinal of the last recognised level of the log in file
\* order (0 when there is none).
C20_Original ==
  /\ sessionState.thinkingLevelNum \in 0..3
  /\ SessionDone => SampleValue("thinkingLevel") = LastLevel(sessionFile.lines)

\* C20 (amended): the thinking level starts at 0 and after every line read
\* is the ordinal of the last recognised level among the lines read so far
\* (an event naming another level leaves it as it was); it is always in
\* 0..3, and the exported one is that of the lines before the first line
\* over the scanner's line-length limit.
C20_Amended ==
  /\ sessionState.thinkingLevelNum \in 0..3
  /\ sessionState.thinkingLevelNum =
       LastLevel(SubSeq(sessionFile.lines, 1, scanned))
  /\ SessionDone =>
       SampleValue("thinkingLevel") = LastLevel(BeforeLong(sessionFile.lines))

\* A recognised level, then an unrecognised one: the first is exported.
C20_Witness ==
  /\ SessionDone
  /\ Len(sessionFile.lines) = 3
  /\ sessionFile.lines[1] = Object(ThinkingChange("low"))
  /\ sessionFile.lines[2] = Object(ThinkingChange("medium"))
  /\ sessionFile.lines[3] = Object(ThinkingChange("max"))
  /\ SampleValue("thinkingLevel") = 2

\* The model (f = "model") or provider (f = "provider") an event names, ""
\* when it names none.
NamedBy(line, f) ==
  LET ev == Decode(line).event IN
  IF Dropped(line) THEN ""
  ELSE IF ev.type = "message" /\ ~ev.message.nil THEN ev.message[f]
  ELSE IF ev.type = "model_change"
       THEN (IF f = "model" THEN ev.modelId ELSE ev.provider)
  ELSE ""

\* The value named by the last line that names one, "" without one.
RECURSIVE LastNamed(_, _)
LastNamed(lines, f) ==
  IF lines = << >> THEN ""
  ELSE IF NamedBy(lines[Len(lines)], f) # ""
       THEN NamedBy(lines[Len(lines)], f)
       ELSE LastNamed(SubSeq(lines, 1, Len(lines) - 1), f)

\* C21 (as stated): after the fold the current model is the model named by
\* the last event of the log that names one, and the current provider the
\* provider named by the last event that names one.
C21_Original ==
  SessionDone =>
    /\ sessionState.currentModel = LastNamed(sessionFile.lines, "model")
    /\ sessionState.currentProvider = LastNamed(sessionFile.lines, "provider")

\* C21 (amended): after every line read the current model is the model
\* named by the last event read so far that names one and the current
\* provider the provider named by the last event read that names one (an
\* event that names no value leaves it unchanged); the fold ends at the
\* first line over the scanner's line-length limit, so after it the two are
\* those of the lines before that line.
C21_Amended ==
  /\ spc \in {"scan", "report", "done"} =>
       LET read == SubSeq(sessionFile.lines, 1, scanned) IN
       /\ sessionState.currentModel = LastNamed(read, "model")
       /\ sessionState.currentProvider = LastNamed(read, "provider")
  /\ SessionDone =>
       /\ sessionState.currentModel =
            LastNamed(BeforeLong(sessionFile.lines), "model")
       /\ sessionState.currentProvider =
            LastNamed(BeforeLong(sessionFile.lines), "provider")

\* The last event names a model and no provider: the model is its own, the
\* provider that of the event before.
C21_Witness ==
  /\ SessionDone
  /\ Len(sessionFile.lines) = 3
  /\ NamedBy(sessionFile.lines[1], "provider") = "p1"
  /\ NamedBy(sessionFile.lines[2], "provider") = "p2"
  /\ NamedBy(sessionFile.lines[3], "model") = "m2"
  /\ NamedBy(sessionFile.lines[3], "provider") = ""
  /\ sessionState.currentModel = "m2"
  /\ sessionState.currentProvider = "p2"

ModelInfoSamples ==
  {n \in 1..Len(exported) : exported[n].desc = "modelInfo"}

SomeEventNamesModel(lines) ==
  \E n \in 1..Len(lines) : NamedBy(lines[n], "model") # ""

ModelInfoIffNamed(lines) ==
  /\ Cardinality(ModelInfoSamples) <= 1
  /\ \A n \in ModelInfoSamples : exported[n].value = 1
  /\ (ModelInfoSamples # {}) <=> SomeEventNamesModel(lines)

\* C22 (as stated): for a log that was opened a model-info sample (value
\* 1) is emitted exactly when some event of the log named a non-empty
\* model, and at most one is emitted.
C22_Original == SessionDone => ModelInfoIffNamed(sessionFile.lines)

\* C22 (amended): for a log that was opened, a call of the parser emits a
\* model-info sample (value 1) exactly when some event before the first
\* line over the scanner's line-length limit named a non-empty model, and
\* it emits at most one.
C22_Amended ==
  SessionDone => ModelInfoIffNamed(BeforeLong(sessionFile.lines))

\* A model was named without a provider: the sample carries an empty one.
C22_Witness ==
  /\ SessionDone
  /\ Len(sessionFile.lines) = 2
  /\ ~SomeEventNamesModel(<< sessionFile.lines[1] >>)
  /\ NamedBy(sessionFile.lines[2], "model") = "m2"
  /\ \E n \in ModelInfoSamples :
       exported[n].model = "m2" /\ exported[n].provider = ""

\* The samples of a sequence, as a bag (the order of a range over a Go map
\* is not fixed).
SeqBag(seq) ==
  [x \in Range(seq) |-> Cardinality({n \in 1..Len(seq) : seq[n] = x})]

\* What one registry entry is to add to the export: nothing unless its key
\* has the prefix and its sessionId is set; else its two registry samples
\* and, when it names a log that can be opened, the samples of that log.
ExpectedOfEntry(agent, key, session) ==
  IF HasPrefix(key, AgentPrefix) /\ session.sessionId # ""
  THEN SeqBag(EntrySamples(agent, session))
       (+) (IF session.sessionFile # ""
               /\ SessionFileAt(session.sessionFile).status = "ok"
            THEN SeqBag(Labelled(
                   Samples(FoldLines(ZeroState,
                     SelectSeq(BeforeLong(
                                 SessionFileAt(session.sessionFile).lines),
                               KeepDecodable))),
                   agent, session.sessionId))
            ELSE EmptyBag)
  ELSE EmptyBag

RECURSIVE ExpectedOfKeys(_, _, _)
ExpectedOfKeys(agent, sessions, keys) ==
  IF keys = {} THEN EmptyBag
  ELSE LET key == CHOOSE x \in keys : TRUE IN
       ExpectedOfEntry(agent, key, sessions[key])
       (+) ExpectedOfKeys(agent, sessions, keys \ {key})

\* What one entry of the agents directory is to add to the export.
ExpectedOfAgent(a) ==
  IF a.isDir /\ a.registry.status = "ok"
  THEN ExpectedOfKeys(a.name, a.registry.sessions, DOMAIN a.registry.sessions)
       (+) SeqBag(<< ScrapeSuccessSample(1, a.name) >>)
  ELSE EmptyBag

RECURSIVE ExpectedOfAgents(_)
ExpectedOfAgents(entries) ==
  IF entries = << >> THEN EmptyBag
  ELSE ExpectedOfAgent(Head(entries)) (+) ExpectedOfAgents(Tail(entries))

\* An agent directory whose registry is missing, unreadable or malformed.
Faulty(a) == a.isDir /\ a.registry.status # "ok"

NotFaulty(a) == ~Faulty(a)

WalkDone == wpc = "end"

\* C23: in one export call an agent whose registry is missing, unreadable
\* or malformed does not stop the walk (some step is possible until the
\* call returns), and when the call has returned the samples exported are
\* those of the agents directory without the faulty agents.
C23_FaultyAgentSkipped ==
  /\ ~WalkDone => ENABLED WalkNext
  /\ (WalkDone /\ agentsDir.status = "ok") =>
       SeqBag(exported) =
         ExpectedOfAgents(SelectSeq(agentsDir.entries, NotFaulty))

\* The call has returned from a walk where a faulty agent came before an
\* agent with sessions, whose samples are in the export.
C23_Witness ==
  /\ WalkDone
  /\ Len(agentsDir.entries) = 2
  /\ agentsDir.entries[1].isDir
  /\ agentsDir.entries[1].registry.status = "malformed"
  /\ agentsDir.entries[2].registry = LiveRegistry
  /\ \E n \in 1..Len(exported) :
       /\ exported[n].agent = agentsDir.entries[2].name
       /\ exported[n].desc = "sessionTokensTotal"
       /\ exported[n].value = 23

\* The positions in the export of the samples labelled with an agent, and
\* of its scrape-success samples.
AgentSamples(name) == {n \in 1..Len(exported) : exported[n].agent = name}

SuccessOf(name) ==
  {n \in AgentSamples(name) : exported[n].desc = "scrapeSuccess"}

\* Exactly one scrape-success sample of the agent, with value 0 or 1, and
\* no sample of the agent after it.
OneSuccessLast(name) ==
  /\ Cardinality(SuccessOf(name)) = 1
  /\ \A n \in SuccessOf(name) :
       /\ exported[n].value \in {0, 1}
       /\ \A m \in AgentSamples(name) : m <= n

\* C24 as stated: when the export call has returned, every agent whose
\* registry file exists has exactly one scrape-success sample (value 1 or
\* 0), after all samples of its sessions.
C24_Original ==
  WalkDone =>
    \A ix \in 1..Len(agentsDir.entries) :
      LET a == agentsDir.entries[ix] IN
      (a.isDir /\ a.registry.status # "missing") => OneSuccessLast(a.name)

\* C24 amended: at any moment no sample of an agent stands after a
\* scrape-success sample of that agent; when the export call has returned,
\* every agent whose registry was read and parsed has exactly one
\* scrape-success sample and its value is 1, every other entry of the
\* agents directory (registry missing, unreadable or malformed, or not a
\* directory) has no sample at all, and the value 0 is exported only as the
\* single sample, labelled "unknown", of a call that could not list the
\* agents directory.
C24_Amended ==
  /\ \A ix \in 1..Len(agentsDir.entries) :
       \A n \in SuccessOf(agentsDir.entries[ix].name) :
         \A m \in AgentSamples(agentsDir.entries[ix].name) : m <= n
  /\ WalkDone =>
       /\ \A ix \in 1..Len(agentsDir.entries) :
            LET a == agentsDir.entries[ix] IN
            IF a.isDir /\ a.registry.status = "ok"
            THEN /\ OneSuccessLast(a.name)
                 /\ \A n \in SuccessOf(a.name) : exported[n].value = 1
            ELSE AgentSamples(a.name) = {}
       /\ IF agentsDir.status = "ok"
          THEN \A n \in 1..Len(exported) : exported[n].desc = "scrapeSuccess"
                                             => exported[n].value = 1
          ELSE exported = << ScrapeSuccessSample(0, "unknown") >>

\* The call has returned from a walk over an agent with sessions, whose
\* scrape-success sample stands last of its twenty samples, and an agent
\* whose registry exists but cannot be read, which has none.
C24_Witness ==
  /\ WalkDone
  /\ Len(agentsDir.entries) = 2
  /\ agentsDir.entries[1].registry = LiveRegistry
  /\ agentsDir.entries[2].isDir
  /\ agentsDir.entries[2].registry.status = "unreadable"
  /\ Cardinality(AgentSamples("a1")) = 20
  /\ exported[20].desc = "scrapeSuccess"
  /\ exported[20].value = 1
  /\ AgentSamples("a2") = {}

\* The registry entry a record of the history stands for.
VisitedSession(v) ==
  LET ix == CHOOSE x \in 1..Len(agentsDir.entries) :
              agentsDir.entries[x].name = v.agent
  IN  agentsDir.entries[ix].registry.sessions[v.key]

\* The positions of the session samples exported between the visit of the
\* j-th entry of the history and the visit of the next (or now).
ProducedBy(j) ==
  LET upto == IF j < Len(visited) THEN visited[j + 1].from ELSE Len(exported)
  IN  {n \in (visited[j].from + 1)..upto : exported[n].desc # "scrapeSuccess"}

\* C25: a registry entry that was visited has produced session samples if
\* and only if its key starts with "agent:" and its sessionId is non-empty;
\* the first sample of such an entry is session-active with value 1 and the
\* entry's labels; for any other entry nothing was exported and its session
\* log was not opened.
C25_LiveEntriesOnly ==
  \A j \in 1..Len(visited) :
    LET v == visited[j]
        session == VisitedSession(v)
    IN  IF HasPrefix(v.key, AgentPrefix) /\ session.sessionId # ""
        THEN /\ ProducedBy(j) # {}
             /\ exported[v.from + 1] =
                  [Sample("sessionActive", 1) EXCEPT
                     !.agent = v.agent, !.session_id = session.sessionId]
             /\ \A n \in ProducedBy(j) :
                  /\ exported[n].agent = v.agent
                  /\ exported[n].session_id = session.sessionId
        ELSE /\ ProducedBy(j) = {}
             /\ ~v.opened

\* The call has returned from a walk that visited an entry with a key
\* without the prefix, an entry with an empty sessionId (both naming a log)
\* and a live entry whose log was opened.
C25_Witness ==
  /\ WalkDone
  /\ \E j \in 1..Len(visited) :
       /\ visited[j].key = <<"A", "g", "e", "n", "t", ":", "m">>
       /\ VisitedSession(visited[j]).sessionId = "s4"
       /\ VisitedSession(visited[j]).sessionFile = "ok.jsonl"
  /\ \E j \in 1..Len(visited) :
       /\ HasPrefix(visited[j].key, AgentPrefix)
       /\ VisitedSession(visited[j]).sessionId = ""
       /\ VisitedSession(visited[j]).sessionFile = "ok.jsonl"
  /\ \E j \in 1..Len(visited) :
       /\ visited[j].opened
       /\ Cardinality(ProducedBy(j)) = 10

\* A log that can be opened and has a line over the scanner's limit.
HasLongLine(file) ==
  file.status = "ok" /\ \E n \in 1..Len(file.lines) : file.lines[n].long

\* The (agent, session) label pairs of the live registry entries whose log
\* has such a line, and the agents they belong to.
LongSessions ==
  UNION { LET a == agentsDir.entries[ix] IN
          IF a.isDir /\ a.registry.status = "ok"
          THEN { << a.name, a.registry.sessions[key].sessionId >> :
                   key \in { x \in DOMAIN a.registry.sessions :
                      /\ HasPrefix(x, AgentPrefix)
                      /\ a.registry.sessions[x].sessionId # ""
                      /\ a.registry.sessions[x].sessionFile # ""
                      /\ HasLongLine(
                           SessionFileAt(a.registry.sessions[x].sessionFile)) } }
          ELSE {} : ix \in 1..Len(agentsDir.entries) }

\* A bag of samples without the samples of those sessions.
OtherSessions(bag) ==
  [x \in {y \in DOMAIN bag : << y.agent, y.session_id >> \notin LongSessions}
     |-> bag[x]]

\* C30: when the export call has returned, the samples of every session
\* other than those whose log has a line over the limit, and of every other
\* agent, are the ones the registries call for (they do not depend on the
\* failing log), and each agent with such a session has its scrape-success
\* sample.
C30_LongLineFailsOneFile ==
  (WalkDone /\ agentsDir.status = "ok") =>
    /\ OtherSessions(SeqBag(exported)) =
         OtherSessions(ExpectedOfAgents(agentsDir.entries))
    /\ \A p \in LongSessions : SuccessOf(p[1]) # {}

\* The call has returned from a walk where the session with the over-long
\* line was visited before another session of the same agent, and a second
\* agent with sessions came after; both have samples in the export.
C30_Witness ==
  /\ WalkDone
  /\ Len(agentsDir.entries) = 2
  /\ agentsDir.entries[1].registry = LiveRegistry
  /\ agentsDir.entries[2].registry = OddRegistry
  /\ LongSessions = { << "a1", "s2" >> }
  /\ visited[1].key = <<"a", "g", "e", "n", "t", ":", "s">>
  /\ visited[1].opened
  /\ \E n \in AgentSamples("a1") :
       exported[n].session_id = "s1" /\ exported[n].desc = "modelInfo"
  /\ \E n \in AgentSamples("a2") : exported[n].desc = "sessionActive"
  /\ SuccessOf("a1") # {}

\* A line that is a level-2 heading: trimmed, it starts with exactly two
\* '#' and has content after them.
IsLevel2Heading(raw) ==
  LET line == TrimSpace(raw) IN
  /\ Len(line) >= 3
  /\ line[1] = "#" /\ line[2] = "#" /\ line[3] # "#"
  /\ TrimLeft(SubSeq(line, 3, Len(line))) # << >>

Level2Headings(lines) ==
  Cardinality({n \in 1..Len(lines) : IsLevel2Heading(lines[n])})

\* C26: the agents sub-scan of a workspace that has AGENTS.md and no
\* legacy agent.md returns with agentsCount equal to the number of level-2
\* headings of AGENTS.md.
C26_AgentsMdCounted ==
  [][ ( /\ pc = "agRead" /\ pc' # pc
        /\ ws.agentMd.status = "missing"
        /\ ws.agentsMd.status = "ok" ) =>
          local'.agentsCount = Level2Headings(ws.agentsMd.lines) ]_vars

\* The count the sub-scan takes from a file: that of countMarkdownSections,
\* or 0 when the file cannot be read.
SectionsOf(file) ==
  IF file.status = "ok" THEN CountLines(file.lines) ELSE 0

\* C27: the agents sub-scan returns with the section count of the legacy
\* agent.md whatever AGENTS.md holds; a step that creates, rewrites or
\* deletes AGENTS.md changes agentsCount neither in the snapshot under
\* construction nor in the published one; and the published agentsCount is
\* that of agent.md whatever was done to AGENTS.md during the cycle.
C27_LegacyFileOnly ==
  /\ [][ /\ (pc = "agRead" /\ pc' # pc) =>
              local'.agentsCount = SectionsOf(ws.agentMd)
         /\ (ws'.agentsMd # ws.agentsMd) =>
              /\ local'.agentsCount = local.agentsCount
              /\ snapshot'.agentsCount = snapshot.agentsCount ]_vars
  /\ []( pc \in {"setDur", "setErr", "unlock", "observe"} =>
           snapshot.agentsCount = SectionsOf(ws.agentMd) )

\* A cycle has published agentsCount = 2 from an agent.md with two
\* sections; AGENTS.md, which the file sub-scan of the cycle still saw,
\* has been deleted since.
C27_Witness ==
  /\ pc = "observe"
  /\ ws.agentMd.lines = << H2Line, BareH2, H2Line >>
  /\ ws.agentMd.status = "ok"
  /\ snapshot.agentsCount = 2
  /\ ws.agentsMd.status = "missing"
  /\ \E n \in 1..Len(snapshot.fileStats) :
       snapshot.fileStats[n].name = "AGENTS.md"

\* C28: a cycle that has run without a failed sub-scan (so without a
\* timeout) over the tree and environment of the cycle that published the
\* stored snapshot, itself without a failed sub-scan, has built a snapshot
\* equal to the stored one in every field; the scan duration is no field
\* of the snapshot and is free to differ.
C28_Idempotent ==
  ( /\ pc \in {"lock", "lockWait", "locked"}
    /\ origin.byCycle
    /\ origin.failed = {}
    /\ failed = {} ) => local = snapshot

\* A second cycle over the typical workspace is about to publish a snapshot
\* equal to the stored one, with another duration.
C28_Witness ==
  /\ pc = "locked"
  /\ origin.byCycle
  /\ origin.failed = {}
  /\ failed = {}
  /\ ws = TypicalWs
  /\ local = snapshot
  /\ Len(snapshot.fileStats) = 5
  /\ snapshot.agentsCount = 2
  /\ snapshot.scrapeSuccess = 1
  /\ duration # lastDuration

\* C29: the count the agents sub-scan takes from a readable agent.md is the
\* number of its lines that are level-2 headings (exactly two '#', then
\* content); headings of another level and bare markers are not counted.
C29_CountsLevel2Only ==
  [][ ( /\ pc = "agRead" /\ pc' # pc
        /\ ws.agentMd.status = "ok" ) =>
          local'.agentsCount = Level2Headings(ws.agentMd.lines) ]_vars

\* main has passed flag.Parse; it has resolved the home path.
Parsed == mpc # "parse"

HomeResolved == mpc \in {"newOpenclaw", "newSession", "listen", "serving"}

\* Nothing has been constructed, started or served.
NothingStarted ==
  /\ registered = {}
  /\ pc = "unborn"
  /\ active = 0
  /\ mpc \in {"parse", "checkDir", "fatal"}

\* C31 as stated: the workspace path is the flag if given, else the
\* environment variable; with both empty nothing is ever constructed,
\* started or served; the home path is the flag if given, else the
\* environment variable if set, else the value derived from HOME.
C31_Original ==
  /\ Parsed =>
       openclawDir = IF args.dirFlag.given THEN args.dirFlag.value
                     ELSE args.OPENCLAW_DIR
  /\ (args.dirFlag.value = NoPath /\ args.OPENCLAW_DIR = NoPath) =>
       NothingStarted
  /\ HomeResolved =>
       openclawHomePath =
         IF args.homeFlag.given THEN args.homeFlag.value
         ELSE IF args.OPENCLAW_HOME # NoPath THEN args.OPENCLAW_HOME
         ELSE args.HOME \o << "/.openclaw" >>

\* The value a flag and its environment variable yield together.
FlagOrEnv(f, env) == IF f.given THEN f.value ELSE env

\* C31 amended: the workspace path is the flag's value when the flag is
\* given, else the environment variable; whenever that value is empty
\* (both empty, or the flag given with an empty value whatever the
\* variable holds) nothing is ever constructed, started or served, and
\* otherwise the workspace collector is constructed with it; the home path
\* is the same value for the home flag and variable when it is not empty,
\* and in every other case (an empty flag value hides a set variable) the
\* value derived from HOME; the session collector is constructed with it.
C31_Amended ==
  /\ Parsed =>
       openclawDir = FlagOrEnv(args.dirFlag, args.OPENCLAW_DIR)
  /\ FlagOrEnv(args.dirFlag, args.OPENCLAW_DIR) = NoPath => NothingStarted
  /\ HomeResolved =>
       /\ openclawDir # NoPath
       /\ openclawHomePath =
            IF FlagOrEnv(args.homeFlag, args.OPENCLAW_HOME) # NoPath
            THEN FlagOrEnv(args.homeFlag, args.OPENCLAW_HOME)
            ELSE args.HOME \o << "/.openclaw" >>
  /\ \A r \in registered :
       r.path = IF r.collector = "openclaw" THEN openclawDir
                ELSE openclawHomePath

\* main serves with the workspace path taken from the flag over a set
\* variable and the home path derived from HOME, the home flag having been
\* given empty over a set variable; the first scan has started.
C31_Witness ==
  /\ mpc = "serving"
  /\ args.dirFlag = Given(<< "/f" >>)
  /\ args.OPENCLAW_DIR = << "/e" >>
  /\ args.homeFlag = Given(NoPath)
  /\ args.OPENCLAW_HOME = << "/e" >>
  /\ openclawHomePath = << "/u", "/.openclaw" >>
  /\ Cardinality(registered) = 2
  /\ pc = "begin"

\* C32: the stored snapshot, duration and counter change only in the
\* publish step of a cycle; a step that writes to the cycle's local
\* snapshot writes to a map and a slice that the stored snapshot (and so
\* every copy a Collect call took of it) does not hold; and a copy held by
\* a Collect call stays as it is until that call returns.
C32_SnapshotsImmutable ==
  [][ /\ ( \/ snapshot' # snapshot
           \/ lastDuration' # lastDuration
           \/ scanErrorsTotal' # scanErrorsTotal ) =>
             pc \in {"locked", "setDur", "setErr"}
      /\ local' # local => ~aliased'
      /\ mu'.readers >= mu.readers =>
           \A c \in BagToSet(rcopied) :
             CopiesIn(c, rcopied') >= CopiesIn(c, rcopied) ]_vars

\* A later cycle is writing file facts into its own snapshot while the
\* stored snapshot of an earlier cycle is held, as a copy, by a Collect
\* call.
C32_Witness ==
  /\ pc \in SubScanPcs
  /\ origin.byCycle
  /\ ~aliased
  /\ local.fileStats # << >>
  /\ local # snapshot
  /\ snapshot.fileStats # << >>
  /\ \E c \in BagToSet(rcopied) : c.snapshot = snapshot

\* C33: while a session log is folded, no step of the scan loop lowers the
\* message count or the input, output or cache-read token total.
C33_CountersNeverDecrease ==
  [][ spc = "scan" =>
        /\ sessionState'.messageCount >= sessionState.messageCount
        /\ sessionState'.totalInputTokens >= sessionState.totalInputTokens
        /\ sessionState'.totalOutputTokens >= sessionState.totalOutputTokens
        /\ sessionState'.totalCacheRead >= sessionState.totalCacheRead ]_vars

C35_InitialExport ==
  ~origin.byCycle =>
    /\ \A c \in BagToSet(rcopied) :
         /\ c.snapshot.fileStats = << >>
         /\ DOMAIN c.snapshot.workspaceExists = {}
         /\ c.snapshot.contextLength = 0
         /\ c.snapshot.memoryFiles = 0
         /\ c.snapshot.skillsCount = 0
         /\ c.snapshot.agentsCount = 0
         /\ c.snapshot.scrapeSuccess = 0
         /\ c.duration = 0
         /\ c.scanErrorsTotal = 0
    /\ ( /\ pc \in {"first", "begin", "finish"} \cup SubScanPcs
         /\ rlocked + BagCardinality(rcopied) < NumReaders ) => ENABLED RLock
    /\ rlocked > 0 => ENABLED CopyOut

\* A Collect call holds its copies while the first scan, which has already
\* gathered file facts and met an error, is still running.
C35_Witness ==
  /\ ~origin.byCycle
  /\ ~tickerStarted
  /\ pc \in SubScanPcs
  /\ local.fileStats # << >>
  /\ errorCount > 0
  /\ rcopied # EmptyBag

\* C36 (as stated): the samples of one call of SessionCollector.Collect
\* never hold two samples of one session metric with the same agent and
\* session_id labels.
C36_NoDuplicateLabels ==
  \A m, n \in 1..Len(exported) :
    ( /\ m # n
      /\ exported[m].desc # "scrapeSuccess"
      /\ exported[m].desc = exported[n].desc
      /\ exported[m].agent = exported[n].agent )
    => exported[m].session_id # exported[n].session_id

\* The last line of lines that names a model, 0 without one.
LastModelEvent(lines) ==
  IF \E n \in 1..Len(lines) : NamedBy(lines[n], "model") # ""
  THEN CHOOSE n \in 1..Len(lines) :
         /\ NamedBy(lines[n], "model") # ""
         /\ \A m \in (n + 1)..Len(lines) : NamedBy(lines[m], "model") = ""
  ELSE 0

\* C37 (as stated): the provider and the model label of an emitted
\* model-info sample are the provider and the model named by one event, the
\* last event read that named a model.
C37_Original ==
  SessionDone =>
    \A n \in ModelInfoSamples :
      LET read == BeforeLong(sessionFile.lines)
          last == LastModelEvent(read)
      IN  /\ last # 0
          /\ exported[n].model = NamedBy(read[last], "model")
          /\ exported[n].provider = NamedBy(read[last], "provider")

\* C37 (amended): the model label of an emitted model-info sample is the
\* model named by the last event read that names a model, and its provider
\* label is the provider named by the last event read that names a
\* provider ("" when no event names one); the two labels are set
\* independently and can come from two different events.
C37_Amended ==
  SessionDone =>
    \A n \in ModelInfoSamples :
      LET read == BeforeLong(sessionFile.lines) IN
      /\ LastModelEvent(read) # 0
      /\ exported[n].model = LastNamed(read, "model")
      /\ exported[n].provider = LastNamed(read, "provider")

\* A model change names model and provider, a later message names a model
\* only: the sample carries the message's model and the change's provider.
C37_Witness ==
  /\ SessionDone
  /\ Len(sessionFile.lines) = 2
  /\ sessionFile.lines[1] = Object(ModelChange("m3", "p2"))
  /\ sessionFile.lines[2] = Object(MessageEvent(Message("m2", "", NoUsage)))
  /\ \E n \in ModelInfoSamples :
       exported[n].model = "m2" /\ exported[n].provider = "p2"

\* C38 (as stated): the parser reads every line of a log that could be
\* opened, and the exported message count is the number of lines of the
\* whole file that decode to a message event.
C38_Original ==
  SessionDone =>
    /\ scanned = Len(sessionFile.lines)
    /\ SampleValue("sessionMessages") =
         Len(SelectSeq(sessionFile.lines, IsMessage))

\* C38 (amended): the parser reads the lines in file order and stops only
\* at the end of the file or at the first line over the scanner's 1 MiB
\* line-length limit; no line before that point is passed over, and the
\* exported message count is the number of lines before that point that
\* decode to a message event.
C38_Amended ==
  /\ spc = "report" =>
       \/ scanned = Len(sessionFile.lines)
       \/ sessionFile.lines[scanned + 1].long
  /\ spc \in {"scan", "report", "done"} /\ sessionFile.status = "ok" =>
       /\ scanned <= Len(BeforeLong(sessionFile.lines))
       /\ sessionState.messageCount =
            Len(SelectSeq(SubSeq(sessionFile.lines, 1, scanned), IsMessage))
  /\ SessionDone =>
       /\ scanned = Len(BeforeLong(sessionFile.lines))
       /\ SampleValue("sessionMessages") =
            Len(SelectSeq(BeforeLong(sessionFile.lines), IsMessage))

\* A message after a line that does not decode is counted; one after an
\* over-long line is not.
C38_Witness ==
  /\ SessionDone
  /\ Len(sessionFile.lines) = 3
  /\ sessionFile.lines[1] = Garbage
  /\ IsMessage(sessionFile.lines[2])
  /\ sessionFile.lines[3].long
  /\ IsMessage([sessionFile.lines[3] EXCEPT !.long = FALSE])
  /\ scanned = 2
  /\ SampleValue("sessionMessages") = 1

HasFact(snap, name) ==
  \E n \in 1..Len(snap.fileStats) : snap.fileStats[n].name = name

FlagsMatchFacts(snap) ==
  \A n \in CanonicalNames :
    /\ n \in DOMAIN snap.workspaceExists
    /\ snap.workspaceExists[n] = 1 <=> HasFact(snap, n)

\* C39: a snapshot published by a cycle in which no sub-scan failed, over a
\* workspace that stayed as it was, flags a canonical name with 1 exactly
\* when its file facts hold an entry of that very name; so does the
\* snapshot under construction once both sub-scans have returned.
C39_FlagsMatchFacts ==
  /\ (PublishedByCycle /\ origin.failed = {}) => FlagsMatchFacts(snapshot)
  /\ ( /\ pc \in (SubScanPcs \ {"files", "exists"})
              \cup {"finish"} \cup PublishPcs
       /\ failed \cap {"files", "exists"} = {} ) => FlagsMatchFacts(local)

\* A workspace with the legacy soul.md and no SOUL.md, with MEMORY.md and
\* with the non-canonical BOOT.md: the facts hold soul.md, BOOT.md and
\* MEMORY.md, and of the flags only that of MEMORY.md is 1.
C39_Witness ==
  /\ PublishedByCycle
  /\ origin.failed = {}
  /\ DOMAIN ws.stat = {"soul.md", "BOOT.md", "MEMORY.md"}
  /\ HasFact(snapshot, "soul.md")
  /\ HasFact(snapshot, "BOOT.md")
  /\ snapshot.workspaceExists["SOUL.md"] = 0
  /\ snapshot.workspaceExists["MEMORY.md"] = 1
  /\ snapshot.workspaceExists["BOOTSTRAP.md"] = 0
====
